---------------------------- MODULE Spec2Model ----------------------------
(***************************************************************************)
(* Room acoustics analyzer (src/src/App.jsx): the room-mode generator, the *)
(* signed pressure field, the frequency-response predictor, the flatness   *)
(* scorer, the placement-strategy catalog, the subwoofer grid search and   *)
(* the React component that feeds them: its state, its five memoised       *)
(* values, the speaker list, and saving and loading a configuration.       *)
(*                                                                         *)
(* Numbers.  The program computes in IEEE doubles; the model computes in   *)
(* fixed point over the integers:                                          *)
(*   room dimensions         1/DimUnit ft                                  *)
(*   positions               1/PosUnit ft                                  *)
(*   mode frequencies        1/FreqUnit Hz, rounded down                   *)
(*   pressures, cosines      1/CosScale                                    *)
(*   dB values, scores       1/DbUnit dB (points)                          *)
(* -Infinity, +Infinity and NaN, which Math.log10(0) and arithmetic on it  *)
(* produce, are the values NegInf, PosInf and NaN.                         *)
(* The boundary distances of calcSBIR and calcBoundaryGain, which are      *)
(* compared with 0.1, 2 and 15, are the doubles themselves (DoubleOf,      *)
(* DoubleMinus, DoubleLess).                                               *)
(***************************************************************************)
EXTENDS Integers, Sequences, FiniteSets, TLC

\* ------------------------------------------------------------------------
\* Number representation
\* ------------------------------------------------------------------------

\* const SPEED_OF_SOUND = 1130 (ft/s)
SPEED_OF_SOUND == 1130

\* position units per foot: 0.5 ft = 100, width * 0.17 and width * 0.125
\* are whole numbers of units for whole-foot rooms
PosUnit == 200

\* room-dimension units per foot: a dimension is a number of half feet
DimUnit == 2

\* a room dimension in position units
DimToPos(dim) == dim * (PosUnit \div DimUnit)

\* frequency units per Hz
FreqUnit == 10

\* resolution of Math.cos results and of pressures
CosScale == 10000

\* dB units per dB
DbUnit == 100

\* Math.log10(0) * 20 = -Infinity; Infinity; NaN
NegInf == -100000000
PosInf == 100000000
NaN == 123456789

IsFinite(v) == v # NegInf /\ v # PosInf /\ v # NaN

Abs(v) == IF v < 0 THEN -v ELSE v

Sign(v) == IF v < 0 THEN -1 ELSE 1

\* a * b on two fixed-point numbers of scale CosScale, rounded toward zero
\* (so that (-a) * b = -(a * b), as in IEEE arithmetic)
Mul(a, b) == Sign(a) * Sign(b) * ((Abs(a) * Abs(b)) \div CosScale)

RECURSIVE GCD(_, _)
GCD(a, b) == IF b = 0 THEN a ELSE GCD(b, a % b)

\* Math.sqrt on a natural number, rounded down
RECURSIVE SqrtSearch(_, _, _)
SqrtSearch(v, lo, hi) ==
  IF lo >= hi THEN lo
  ELSE LET mid == (lo + hi + 1) \div 2
       IN IF mid * mid <= v THEN SqrtSearch(v, mid, hi)
          ELSE SqrtSearch(v, lo, mid - 1)

Sqrt(v) == SqrtSearch(v, 0, 46340)

\* Math.cos(PI * p / q) for 0 <= 2p <= q, in units of 1/CosScale: the rational
\* approximation (q^2 - 4p^2) / (q^2 + p^2), exact at 0, PI/3 and PI/2
CosQuarter(p, q) == (CosScale * (q * q - 4 * p * p)) \div (q * q + p * p)

\* Math.cos(PI * p / q), q > 0, in units of 1/CosScale: cos is even, has period
\* 2 PI, and cos(PI - t) = - cos(t)
CosFolded(f, b) == IF 2 * f <= b THEN CosQuarter(f, b) ELSE - CosQuarter(b - f, b)

CosReduced(a, b) == CosFolded(IF a > b THEN 2 * b - a ELSE a, b)

CosLowest(p, q, g) == CosReduced((p \div g) % (2 * (q \div g)), q \div g)

CosPi(p, q) == CosLowest(Abs(p), q, GCD(Abs(p), q))

\* floor(log2(p)), p >= 1
RECURSIVE FloorLog2(_)
FloorLog2(p) == IF p < 2 THEN 0 ELSE 1 + FloorLog2(p \div 2)

\* the first k binary digits of the fraction of log2(m / 2^14), 2^14 <= m < 2^15
RECURSIVE FracLog2(_, _)
FracLog2(m, k) ==
  IF k = 0 THEN 0
  ELSE LET s == (m * m) \div 16384
       IN IF s >= 32768 THEN 2 ^ (k - 1) + FracLog2(s \div 2, k - 1)
          ELSE FracLog2(s, k - 1)

\* 20 * Math.log10(p / CosScale) in units of 1/DbUnit dB, p >= 0
\* (20 log10 2 = 6.0206; log10(0) = -Infinity)
Log10Times20(p) ==
  IF p = 0 THEN NegInf
  ELSE LET e == FloorLog2(p)
           m == IF e <= 14 THEN p * 2 ^ (14 - e) ELSE p \div 2 ^ (e - 14)
           l2 == e * 1024 + FracLog2(m, 10)
       IN (60206 * l2 + 51200) \div 102400 - 8000

\* IEEE doubles, where a comparison depends on their rounding (the differences
\* length - x that calcSBIR and calcBoundaryGain compare with 0.1, 2 and 15).  A
\* double d, 0 <= d < 1024, is the sequence of five digits of d * 2^56 in base
\* 2^14: the whole part and 56 binary places.  Every double from 1/16 up has its 53
\* significant bits there, and so has every difference of two of them.
LimbBase == 16384

\* the digits brought into 0..LimbBase-1, carries and borrows passed on to the left
Normalised(s) ==
  LET e5 == s[5]
      e4 == s[4] + e5 \div LimbBase
      e3 == s[3] + e4 \div LimbBase
      e2 == s[2] + e3 \div LimbBase
      e1 == s[1] + e2 \div LimbBase
  IN <<e1, e2 % LimbBase, e3 % LimbBase, e4 % LimbBase, e5 % LimbBase>>

\* Round to nearest, ties to even, at 53 significant bits.  s holds the digits of
\* the exact value cut after 56 places; rest tells what was cut: 0 nothing, 1 less
\* than half a unit of the last place, 2 half a unit, 3 more.
RoundToDouble(s, rest) ==
  LET top == IF s[1] > 0 THEN FloorLog2(s[1])
             ELSE IF s[2] > 0 THEN FloorLog2(s[2]) - 14 ELSE -14
      drop == IF top + 4 > 0 THEN top + 4 ELSE 0
      unit == 2 ^ drop
      low == s[5] % unit
      odd == (s[5] \div unit) % 2 = 1
      up == IF drop = 0 THEN rest = 3 \/ (rest = 2 /\ odd)
            ELSE \/ 2 * low > unit
                 \/ 2 * low = unit /\ (rest > 0 \/ odd)
  IN Normalised([s EXCEPT ![5] = s[5] - low + (IF up THEN unit ELSE 0)])

\* parseFloat of the decimal k / den (k >= 0, den <= 1000; 0 or from 1/16 up): the
\* nearest double
DoubleOf(k, den) ==
  LET r1 == (k % den) * LimbBase
      r2 == (r1 % den) * LimbBase
      r3 == (r2 % den) * LimbBase
      r4 == (r3 % den) * LimbBase
      cut == r4 % den
  IN RoundToDouble(<<k \div den, r1 \div den, r2 \div den, r3 \div den, r4 \div den>>,
                   IF cut = 0 THEN 0
                   ELSE IF 2 * cut < den THEN 1
                   ELSE IF 2 * cut = den THEN 2 ELSE 3)

\* a < b on doubles
DoubleLess(a, b) ==
  \E i \in 1..5 : a[i] < b[i] /\ \A j \in 1..(i - 1) : a[j] = b[j]

\* a - b on doubles: the exact difference, rounded.  A negative double (a speaker
\* beyond the rear wall, the right wall or the ceiling) is the digits of its
\* magnitude, each negated; DoubleLess orders these as it orders the others.
DoubleMinus(a, b) ==
  IF DoubleLess(a, b)
  THEN LET magnitude == RoundToDouble(Normalised([i \in 1..5 |-> b[i] - a[i]]), 0)
       IN [i \in 1..5 |-> 0 - magnitude[i]]
  ELSE RoundToDouble(Normalised([i \in 1..5 |-> a[i] - b[i]]), 0)

\* ------------------------------------------------------------------------
\* Acoustic calculations
\* ------------------------------------------------------------------------

\* (n / dim) ** 2 * (SPEED_OF_SOUND / 2) ** 2, in units of 1/FreqUnit^2 Hz^2,
\* rounded down (dim in 1/DimUnit ft)
ModeTerm(n, dim) ==
  LET scaled == ((SPEED_OF_SOUND \div 2) * (SPEED_OF_SOUND \div 2) * FreqUnit * FreqUnit)
                  * n * n
  IN (scaled \div (dim * dim)) * (DimUnit * DimUnit)
       + ((scaled % (dim * dim)) * (DimUnit * DimUnit)) \div (dim * dim)

calcModeFreq(n, m, l, length, width, height) ==
  LET termL == IF n > 0 THEN ModeTerm(n, length) ELSE 0
      termW == IF m > 0 THEN ModeTerm(m, width) ELSE 0
      termH == IF l > 0 THEN ModeTerm(l, height) ELSE 0
  IN IF termL + termW + termH = 0 THEN 0
     ELSE Sqrt(termL + termW + termH)

\* a classification that takes modes of two nonzero indices for axial ones
getModeTypeAtMostTwo(n, m, l) ==
  LET nonZero == Cardinality({i \in 1..3 : <<n, m, l>>[i] > 0})
  IN IF nonZero <= 2 THEN [type |-> "axial", level |-> 0]
     ELSE [type |-> "oblique", level |-> -6]

getModeType(n, m, l) ==
  LET nonZero == Cardinality({i \in 1..3 : <<n, m, l>>[i] > 0})
  IN IF nonZero = 1 THEN [type |-> "axial", level |-> 0]
     ELSE IF nonZero = 2 THEN [type |-> "tangential", level |-> -3]
     ELSE [type |-> "oblique", level |-> -6]

\* the place of each element of s in ascending order of frequency, elements of
\* equal frequency keeping their order
FreqRanks(s) ==
  [i \in 1..Len(s) |->
     Cardinality({j \in 1..Len(s) : \/ s[j].freq < s[i].freq
                                    \/ s[j].freq = s[i].freq /\ j < i}) + 1]

Permuted(s, rank) == [r \in 1..Len(s) |-> s[CHOOSE i \in 1..Len(s) : rank[i] = r]]

\* no sort: the modes as pushed
KeepLoopOrder(s) == s

\* Array.prototype.sort with (a, b) => a.freq - b.freq: ascending and stable
SortByFreq(s) == SubSeq(Permuted(s, SubSeq(FreqRanks(s), 1, Len(s))), 1, Len(s))

\* the three nested loops of generateModes, n outermost: the k-th index triple
Triple(k, maxOrder) ==
  LET w == maxOrder + 1
  IN [n |-> k \div (w * w), m |-> (k \div w) % w, l |-> k % w]

\* one pass of the loop body: the mode record of an index triple
ModeOf(t, length, width, height) ==
  LET ty == getModeType(t.n, t.m, t.l)
  IN [n |-> t.n, m |-> t.m, l |-> t.l,
      freq |-> calcModeFreq(t.n, t.m, t.l, length, width, height),
      type |-> ty.type, level |-> ty.level]

\* the modes pushed if the test were freq < maxFreq
PushedModesBelow(length, width, height, maxFreq, maxOrder) ==
  LET w == maxOrder + 1
      Kept(md) == /\ ~(md.n = 0 /\ md.m = 0 /\ md.l = 0)
                  /\ md.freq > 0
                  /\ md.freq < maxFreq * FreqUnit
  IN SelectSeq([k \in 1..(w * w * w) |->
                  ModeOf(Triple(k - 1, maxOrder), length, width, height)], Kept)

\* the modes pushed, in loop order
PushedModes(length, width, height, maxFreq, maxOrder) ==
  LET w == maxOrder + 1
      Kept(md) == /\ ~(md.n = 0 /\ md.m = 0 /\ md.l = 0)
                  /\ md.freq > 0
                  /\ md.freq <= maxFreq * FreqUnit
  IN SelectSeq([k \in 1..(w * w * w) |->
                  ModeOf(Triple(k - 1, maxOrder), length, width, height)], Kept)

generateModes(length, width, height, maxFreq, maxOrder) ==
  SortByFreq(PushedModes(length, width, height, maxFreq, maxOrder))

\* a pressure that ignores the wall openings
calcPressureOfClosedRoom(x, y, z, mode, rm, wallOpenings) ==
  LET pX == IF mode.n > 0 THEN CosPi(mode.n * x, DimToPos(rm.length)) ELSE CosScale
      pY == IF mode.m > 0 THEN CosPi(mode.m * y, DimToPos(rm.width)) ELSE CosScale
      pZ == IF mode.l > 0 THEN CosPi(mode.l * z, DimToPos(rm.height)) ELSE CosScale
  IN Abs(Mul(Mul(pX, pY), pZ))

\* the pressure magnitude of a mode at a position, pushed toward 0.5 as the wall
\* openings (percent) weaken the mode
calcPressureAtPosition(x, y, z, mode, rm, wallOpenings) ==
  LET pX == IF mode.n > 0 THEN CosPi(mode.n * x, DimToPos(rm.length)) ELSE CosScale
      pY == IF mode.m > 0 THEN CosPi(mode.m * y, DimToPos(rm.width)) ELSE CosScale
      pZ == IF mode.l > 0 THEN CosPi(mode.l * z, DimToPos(rm.height)) ELSE CosScale
      rawPressure == Abs(Mul(Mul(pX, pY), pZ))
      sides == IF mode.m > 0
               THEN (100 - wallOpenings.left) * (100 - wallOpenings.right)
               ELSE CosScale
      modeStrength == IF mode.n > 0
                      THEN Mul(sides, (100 - wallOpenings.front) * (100 - wallOpenings.rear))
                      ELSE sides
  IN CosScale \div 2 + Mul(rawPressure - CosScale \div 2, modeStrength)

\* distances that take the rear wall to be a room length away from every speaker
BoundaryDistancesRearAtLength(speaker, rm) ==
  LET x == DoubleOf(speaker.x, PosUnit)
      y == DoubleOf(speaker.y, PosUnit)
      z == DoubleOf(speaker.z, PosUnit)
  IN << [boundary |-> "Front wall", distance |-> x],
        [boundary |-> "Rear wall", distance |-> DoubleOf(rm.length, DimUnit)],
        [boundary |-> "Left wall", distance |-> y],
        [boundary |-> "Right wall", distance |-> DoubleMinus(DoubleOf(rm.width, DimUnit), y)],
        [boundary |-> "Floor", distance |-> z],
        [boundary |-> "Ceiling", distance |-> DoubleMinus(DoubleOf(rm.height, DimUnit), z)] >>

\* the six distances of calcSBIR and calcBoundaryGain, as the doubles the code
\* computes from the speaker's coordinates (position units) and the room
BoundaryDistances(speaker, rm) ==
  LET x == DoubleOf(speaker.x, PosUnit)
      y == DoubleOf(speaker.y, PosUnit)
      z == DoubleOf(speaker.z, PosUnit)
  IN << [boundary |-> "Front wall", distance |-> x],
        [boundary |-> "Rear wall", distance |-> DoubleMinus(DoubleOf(rm.length, DimUnit), x)],
        [boundary |-> "Left wall", distance |-> y],
        [boundary |-> "Right wall", distance |-> DoubleMinus(DoubleOf(rm.width, DimUnit), y)],
        [boundary |-> "Floor", distance |-> z],
        [boundary |-> "Ceiling", distance |-> DoubleMinus(DoubleOf(rm.height, DimUnit), z)] >>

\* SPEED_OF_SOUND / (2 * d.distance), in units of 1/FreqUnit Hz, the distance taken
\* to 14 binary places
SbirFreq(distance) ==
  (SPEED_OF_SOUND * FreqUnit * LimbBase) \div (2 * (distance[1] * LimbBase + distance[2]))

\* a filter that keeps a boundary at 15 ft
WithinSbirRangeOrAtLimit(distance) ==
  /\ DoubleLess(DoubleOf(1, 10), distance)
  /\ ~DoubleLess(DoubleOf(15, 1), distance)

\* d.distance > 0.1 && d.distance < 15
WithinSbirRange(distance) ==
  /\ DoubleLess(DoubleOf(1, 10), distance)
  /\ DoubleLess(distance, DoubleOf(15, 1))

\* .map(d => ({...d, freq})).sort((a, b) => a.freq - b.freq) on the boundaries the
\* filter kept: the null frequency falls as the distance grows, so the order is
\* that of the distances from the largest down, equal ones keeping their order
SortedNulls(kept) ==
  LET rank == [i \in 1..Len(kept) |->
                 Cardinality({j \in 1..Len(kept) :
                                \/ DoubleLess(kept[i].distance, kept[j].distance)
                                \/ kept[j].distance = kept[i].distance /\ j < i}) + 1]
  IN [r \in 1..Len(kept) |->
        LET d == kept[CHOOSE i \in 1..Len(kept) : rank[i] = r]
        IN [boundary |-> d.boundary, distance |-> d.distance,
            freq |-> SbirFreq(d.distance)]]

\* the boundaries in range with their null frequency, sorted by it
calcSBIR(speaker, rm) ==
  SortedNulls(SelectSeq(BoundaryDistances(speaker, rm),
                        LAMBDA d : WithinSbirRange(d.distance)))

\* gainPerBoundary for each of the six boundaries d nearer than the threshold of
\* 2 ft, times (1 - opening / 100), in units of 1/CosScale dB; openings[i] is the
\* opening (percent) that weakens boundary i
GainOfBoundaries(d, type, openings) ==
  LET gainPerBoundary == IF type # "Large Dipole" THEN 3 * CosScale
                         ELSE (3 * CosScale) \div 2
      Term(i) ==
        IF DoubleLess(d[i].distance, DoubleOf(2, 1))
        THEN (gainPerBoundary * (100 - openings[i])) \div 100
        ELSE 0
  IN Term(5) + Term(6) + Term(1) + Term(2) + Term(3) + Term(4)

\* a gain that the wall openings reduce at the floor and the ceiling as well
calcBoundaryGainOpenFloor(speaker, rm, wallOpenings) ==
  GainOfBoundaries(BoundaryDistances(speaker, rm), speaker.type,
                   <<wallOpenings.front, wallOpenings.rear, wallOpenings.left,
                     wallOpenings.right, wallOpenings.front, wallOpenings.front>>)

\* the boundary gain: the floor and the ceiling count in full, the four walls are
\* weakened by their openings
calcBoundaryGain(speaker, rm, wallOpenings) ==
  GainOfBoundaries(BoundaryDistances(speaker, rm), speaker.type,
                   <<wallOpenings.front, wallOpenings.rear, wallOpenings.left,
                     wallOpenings.right, 0, 0>>)

\* ------------------------------------------------------------------------
\* Subwoofer optimizer
\* ------------------------------------------------------------------------

\* Pressure with sign preserved
calcPressureWithSign(pos, mode, rm) ==
  LET pX == IF mode.n > 0 THEN CosPi(mode.n * pos.x, DimToPos(rm.length)) ELSE CosScale
      pY == IF mode.m > 0 THEN CosPi(mode.m * pos.y, DimToPos(rm.width)) ELSE CosScale
      pZ == IF mode.l > 0 THEN CosPi(mode.l * pos.z, DimToPos(rm.height)) ELSE CosScale
  IN Mul(Mul(pX, pY), pZ)

\* the sweep of calcPredictedFR: for (f = lo; f <= hi; f += 2)
SweepFrequencies(freqRange) ==
  LET lo == freqRange[1]
      hi == freqRange[2]
  IN IF lo > hi THEN <<>>
     ELSE [i \in 1..((hi - lo) \div 2 + 1) |-> lo + 2 * (i - 1)]

DefaultFreqRange == <<20, 120>>

\* the sum of s[lo..hi]
RECURSIVE SumRange(_, _, _)
SumRange(s, lo, hi) ==
  IF lo > hi THEN 0
  ELSE IF lo = hi THEN s[lo]
  ELSE LET mid == (lo + hi) \div 2
       IN SumRange(s, lo, mid) + SumRange(s, mid + 1, hi)

SumSeq(s) == SumRange(s, 1, Len(s))

\* a sum of the magnitudes of the excitations, the signs dropped
NetSubMagnitude(subPositions, mode, rm) ==
  SumSeq([i \in 1..Len(subPositions) |->
            Abs(calcPressureWithSign(subPositions[i], mode, rm))])

\* subPositions.reduce((sum, sub) => sum + calcPressureWithSign(sub, mode, room), 0)
NetSubExcitation(subPositions, mode, rm) ==
  SumSeq([i \in 1..Len(subPositions) |-> calcPressureWithSign(subPositions[i], mode, rm)])

\* mode.type === 'axial' ? 1.0 : mode.type === 'tangential' ? 0.5 : 0.25
TypeWeight(mode) ==
  IF mode.type = "axial" THEN CosScale
  ELSE IF mode.type = "tangential" THEN CosScale \div 2
  ELSE CosScale \div 4

\* netSubExcitation * lpCoupling * typeWeight
ModeContribution(subPositions, mode, rm, lp) ==
  LET lpCoupling == calcPressureWithSign(lp, mode, rm)
      netSubExcitation == NetSubExcitation(subPositions, mode, rm)
  IN Mul(Mul(netSubExcitation, lpCoupling), TypeWeight(mode))

\* a band of freq / 4 on either side
IsNearbyWithinQuarter(mode, freq) == 4 * Abs(mode.freq - freq * FreqUnit) < freq * FreqUnit

\* Math.abs(m.freq - freq) < freq / 8
IsNearby(mode, freq) == 8 * Abs(mode.freq - freq * FreqUnit) < freq * FreqUnit

\* const baseline = 0.5
Baseline == CosScale \div 2

\* the record of one sweep point
PointOf(freq, totalPressure) ==
  [freq |-> freq, dB |-> Log10Times20(Abs(totalPressure)), pressure |-> totalPressure]

\* modes.filter(m => Math.abs(m.freq - freq) < bandwidth): the places in ms of the
\* modes kept, in order
NearbyModes(ms, freq) ==
  SelectSeq([i \in 1..Len(ms) |-> i], LAMBDA i : IsNearby(ms[i], freq))

\* the nearby modes of every sweep frequency (they depend on the frequencies and
\* the mode list only, not on the subwoofers)
NearbyTable(frequencies, ms) ==
  SubSeq([k \in 1..Len(frequencies) |-> NearbyModes(ms, frequencies[k])],
         1, Len(frequencies))

\* a sweep point without the baseline
FRPointWithoutBaseline(freq, nearbyModes, contribution) ==
  PointOf(freq, SumSeq([k \in 1..Len(nearbyModes) |-> contribution[nearbyModes[k]]]))

\* one sweep point: the contributions of the modes near freq, plus the baseline
FRPoint(freq, nearbyModes, contribution) ==
  PointOf(freq,
          SumSeq([k \in 1..Len(nearbyModes) |-> contribution[nearbyModes[k]]])
            + Baseline)

FRPoints(frequencies, nearby, contribution) ==
  SubSeq([i \in 1..Len(frequencies) |->
            FRPoint(frequencies[i], nearby[i], contribution)],
         1, Len(frequencies))

\* the body of calcPredictedFR, given the sweep and the nearby modes of each of
\* its frequencies (a mode's contribution does not depend on the sweep frequency)
PredictedFR(subPositions, ms, rm, lp, frequencies, nearby) ==
  FRPoints(frequencies, nearby,
           SubSeq([i \in 1..Len(ms) |->
                     ModeContribution(subPositions, ms[i], rm, lp)],
                  1, Len(ms)))

\* Calculate predicted frequency response for a subwoofer configuration
calcPredictedFR(subPositions, ms, rm, lp, freqRange) ==
  PredictedFR(subPositions, ms, rm, lp, SweepFrequencies(freqRange),
              NearbyTable(SweepFrequencies(freqRange), ms))

\* Math.max(...arr) and Math.min(...arr) on dB values (finite or -Infinity);
\* of no value they are -Infinity and Infinity
Larger(a, b) == IF a >= b THEN a ELSE b

RECURSIVE MaxRange(_, _, _)
MaxRange(arr, lo, hi) ==
  IF lo > hi THEN NegInf
  ELSE IF lo = hi THEN arr[lo]
  ELSE Larger(MaxRange(arr, lo, (lo + hi) \div 2), MaxRange(arr, (lo + hi) \div 2 + 1, hi))

MaxOf(arr) == MaxRange(arr, 1, Len(arr))

Smaller(a, b) == IF a <= b THEN a ELSE b

RECURSIVE MinRange(_, _, _)
MinRange(arr, lo, hi) ==
  IF lo > hi THEN PosInf
  ELSE IF lo = hi THEN arr[lo]
  ELSE Smaller(MinRange(arr, lo, (lo + hi) \div 2), MinRange(arr, (lo + hi) \div 2 + 1, hi))

MinOf(arr) == MinRange(arr, 1, Len(arr))

\* a - b in IEEE arithmetic, a and b finite or infinite
Minus(a, b) ==
  IF a = NaN \/ b = NaN THEN NaN
  ELSE IF a = PosInf THEN (IF b = PosInf THEN NaN ELSE PosInf)
  ELSE IF a = NegInf THEN (IF b = NegInf THEN NaN ELSE NegInf)
  ELSE IF b = PosInf THEN NegInf
  ELSE IF b = NegInf THEN PosInf
  ELSE a - b

\* Standard deviation helper (of an empty array: 0 / 0 = NaN)
Variance(arr, mean) ==
  SumSeq([i \in 1..Len(arr) |-> ((arr[i] - mean) * (arr[i] - mean)) \div Len(arr)])

standardDeviation(arr) ==
  IF arr = <<>> \/ \E i \in 1..Len(arr) : ~IsFinite(arr[i]) THEN NaN
  ELSE Sqrt(Variance(arr, SumSeq(arr) \div Len(arr)))

\* 100 - peakToPeak * 3, not held at 0
FlatnessScoreUnclamped(peakToPeak) ==
  IF peakToPeak = NaN THEN NaN
  ELSE IF peakToPeak = PosInf THEN NegInf
  ELSE IF peakToPeak = NegInf THEN PosInf
  ELSE 100 * DbUnit - peakToPeak * 3

\* Math.max(0, 100 - peakToPeak * 3)
FlatnessScore(peakToPeak) ==
  IF peakToPeak = NaN THEN NaN
  ELSE IF peakToPeak = PosInf THEN 0
  ELSE IF peakToPeak = NegInf THEN PosInf
  ELSE IF 100 * DbUnit - peakToPeak * 3 > 0 THEN 100 * DbUnit - peakToPeak * 3
  ELSE 0

\* a detail that flags a weakly excited mode whatever the number of subwoofers
ModeDetailForAnyCount(subPositions, mode, rm, lp) ==
  LET lpCoupling == calcPressureWithSign(lp, mode, rm)
      netSubExcitation == NetSubExcitation(subPositions, mode, rm)
  IN [mode |-> mode,
      lpPressure |-> Abs(lpCoupling),
      netExcitation |-> netSubExcitation,
      absExcitation |-> Abs(netSubExcitation),
      effectiveImpact |-> Abs(Mul(netSubExcitation, lpCoupling)),
      isCancelled |-> Abs(netSubExcitation) < CosScale \div 5]

\* the mode-by-mode detail of scoreSubConfig
ModeDetail(subPositions, mode, rm, lp) ==
  LET lpCoupling == calcPressureWithSign(lp, mode, rm)
      netSubExcitation == NetSubExcitation(subPositions, mode, rm)
  IN [mode |-> mode,
      lpPressure |-> Abs(lpCoupling),
      netExcitation |-> netSubExcitation,
      absExcitation |-> Abs(netSubExcitation),
      effectiveImpact |-> Abs(Mul(netSubExcitation, lpCoupling)),
      isCancelled |-> Abs(netSubExcitation) < CosScale \div 5 /\ Len(subPositions) > 1]

\* the result record of scoreSubConfig, from the curve and its dB values
ScoreRecord(fr, dBValues, peakToPeak, subPositions, ms, rm, lp) ==
  [overall |-> FlatnessScore(peakToPeak),
   peakToPeak |-> peakToPeak,
   stdDev |-> standardDeviation(dBValues),
   fr |-> fr,
   modeDetails |-> [i \in 1..Len(ms) |->
                      ModeDetail(subPositions, ms[i], rm, lp)]]

PeakToPeak(dBValues) == Minus(MaxOf(dBValues), MinOf(dBValues))

ScoreOfValues(fr, dBValues, subPositions, ms, rm, lp) ==
  ScoreRecord(fr, dBValues, PeakToPeak(dBValues), subPositions, ms, rm, lp)

ScoreOfCurve(fr, subPositions, ms, rm, lp) ==
  ScoreOfValues(fr, SubSeq([i \in 1..Len(fr) |-> fr[i].dB], 1, Len(fr)),
                subPositions, ms, rm, lp)

\* the body of scoreSubConfig, given the nearby modes of the default sweep
ScoreWith(subPositions, ms, rm, lp, nearby) ==
  ScoreOfCurve(PredictedFR(subPositions, ms, rm, lp,
                           SweepFrequencies(DefaultFreqRange), nearby),
               subPositions, SelectSeq(ms, LAMBDA m : m.freq <= 120 * FreqUnit),
               rm, lp)

\* Score a subwoofer configuration based on FR flatness
scoreSubConfig(subPositions, ms, rm, lp) ==
  ScoreWith(subPositions, ms, rm, lp,
            NearbyTable(SweepFrequencies(DefaultFreqRange), ms))

\* no value: JavaScript's null
Null == [null |-> TRUE]

\* dim * fraction, the fraction given in thousandths (room.width * 0.125), and
\* dim / 2, in position units
Times(dim, thousandths) == (DimToPos(dim) * thousandths) \div 1000

\* an inset of 0.25 ft
InsetOfQuarterFoot == PosUnit \div 4

\* 0.5 ft, the inset of every catalog position
Inset == PosUnit \div 2

Pos(x, y) == [x |-> x, y |-> y, z |-> 0]

\* Predefined placement strategies, in the order of the object's keys
PLACEMENT_STRATEGIES ==
  << [key |-> "single-corner-fl", name |-> "Front Left Corner", subs |-> 1],
     [key |-> "single-corner-fr", name |-> "Front Right Corner", subs |-> 1],
     [key |-> "single-midwall-front", name |-> "Front Wall Center", subs |-> 1],
     [key |-> "single-midwall-side", name |-> "Left Wall Center", subs |-> 1],
     [key |-> "dual-front-corners", name |-> "Dual Front Corners", subs |-> 2],
     [key |-> "dual-opposite-corners", name |-> "Opposite Corners (Diagonal)", subs |-> 2],
     [key |-> "dual-front-rear-midwall", name |-> "Front & Rear Midwall", subs |-> 2],
     [key |-> "dual-side-midwalls", name |-> "Left & Right Midwall", subs |-> 2],
     [key |-> "triple-front-wall", name |-> "Front Wall Distributed", subs |-> 3],
     [key |-> "triple-lfe-array", name |-> "LFE Array (Front + Rear Center)", subs |-> 3],
     [key |-> "quad-corners", name |-> "Four Corners", subs |-> 4],
     [key |-> "quad-midwalls", name |-> "Four Midwalls", subs |-> 4],
     [key |-> "quad-double-bass-array", name |-> "Double Bass Array (Front)", subs |-> 4],
     [key |-> "five-corners-plus-center", name |-> "Four Corners + Front Center", subs |-> 5],
     [key |-> "six-distributed", name |-> "Six Distributed", subs |-> 6],
     [key |-> "six-corners-plus-midwalls", name |-> "Four Corners + Side Midwalls", subs |-> 6],
     [key |-> "eight-perimeter", name |-> "Eight Perimeter", subs |-> 8],
     [key |-> "eight-corners-plus-midwalls", name |-> "Four Corners + Four Midwalls", subs |-> 8] >>

\* a catalog whose every strategy places four subwoofers in the corners
getPositionsInCorners(key, rm) ==
  << Pos(Inset, Inset), Pos(Inset, DimToPos(rm.width) - Inset),
     Pos(DimToPos(rm.length) - Inset, Inset),
     Pos(DimToPos(rm.length) - Inset, DimToPos(rm.width) - Inset) >>

\* strategy.getPositions(room)
getPositions(key, rm) ==
  LET L == DimToPos(rm.length)
      W == DimToPos(rm.width)
      ins == Inset
      midL == Times(rm.length, 500)
      midW == Times(rm.width, 500)
  IN CASE key = "single-corner-fl" -> << Pos(ins, ins) >>
       [] key = "single-corner-fr" -> << Pos(ins, W - ins) >>
       [] key = "single-midwall-front" -> << Pos(ins, midW) >>
       [] key = "single-midwall-side" -> << Pos(midL, ins) >>
       [] key = "dual-front-corners" -> << Pos(ins, ins), Pos(ins, W - ins) >>
       [] key = "dual-opposite-corners" -> << Pos(ins, ins), Pos(L - ins, W - ins) >>
       [] key = "dual-front-rear-midwall" -> << Pos(ins, midW), Pos(L - ins, midW) >>
       [] key = "dual-side-midwalls" -> << Pos(midL, ins), Pos(midL, W - ins) >>
       [] key = "triple-front-wall" ->
            << Pos(ins, Times(rm.width, 250)), Pos(ins, Times(rm.width, 500)),
               Pos(ins, Times(rm.width, 750)) >>
       [] key = "triple-lfe-array" ->
            << Pos(ins, ins), Pos(ins, W - ins), Pos(L - ins, midW) >>
       [] key = "quad-corners" ->
            << Pos(ins, ins), Pos(ins, W - ins), Pos(L - ins, ins), Pos(L - ins, W - ins) >>
       [] key = "quad-midwalls" ->
            << Pos(ins, midW), Pos(L - ins, midW), Pos(midL, ins), Pos(midL, W - ins) >>
       [] key = "quad-double-bass-array" ->
            << Pos(ins, Times(rm.width, 125)), Pos(ins, Times(rm.width, 375)),
               Pos(ins, Times(rm.width, 625)), Pos(ins, Times(rm.width, 875)) >>
       [] key = "five-corners-plus-center" ->
            << Pos(ins, ins), Pos(ins, W - ins), Pos(L - ins, ins), Pos(L - ins, W - ins),
               Pos(ins, midW) >>
       [] key = "six-distributed" ->
            << Pos(ins, Times(rm.width, 170)), Pos(ins, Times(rm.width, 500)),
               Pos(ins, Times(rm.width, 830)),
               Pos(L - ins, Times(rm.width, 170)), Pos(L - ins, Times(rm.width, 500)),
               Pos(L - ins, Times(rm.width, 830)) >>
       [] key = "six-corners-plus-midwalls" ->
            << Pos(ins, ins), Pos(ins, W - ins), Pos(L - ins, ins), Pos(L - ins, W - ins),
               Pos(midL, ins), Pos(midL, W - ins) >>
       [] key = "eight-perimeter" ->
            << Pos(ins, Times(rm.width, 250)), Pos(ins, Times(rm.width, 750)),
               Pos(L - ins, Times(rm.width, 250)), Pos(L - ins, Times(rm.width, 750)),
               Pos(Times(rm.length, 250), ins), Pos(Times(rm.length, 750), ins),
               Pos(Times(rm.length, 250), W - ins), Pos(Times(rm.length, 750), W - ins) >>
       [] key = "eight-corners-plus-midwalls" ->
            << Pos(ins, ins), Pos(ins, W - ins), Pos(L - ins, ins), Pos(L - ins, W - ins),
               Pos(ins, midW), Pos(L - ins, midW), Pos(midL, ins), Pos(midL, W - ins) >>

\* for (v = start; v < limit; v += step): the values of v, in order
LoopValues(start, limit, step) ==
  IF start < limit
  THEN [k \in 1..((limit - start - 1) \div step + 1) |-> start + step * (k - 1)]
  ELSE <<>>

\* gridResolution = 1.5 (feet), symmetryConstraint = true
DefaultOptions == [gridResolution |-> (3 * PosUnit) \div 2, symmetryConstraint |-> TRUE]

\* side-wall samples that start at the inset, inside the strip of the front wall
GridPositionsFromInset(rm, gridResolution) ==
  LET L == DimToPos(rm.length)
      W == DimToPos(rm.width)
      ys == LoopValues(Inset, W, gridResolution)
      xs == LoopValues(Inset, L - gridResolution, gridResolution)
      front == [i \in 1..Len(ys) |-> [x |-> Inset, y |-> ys[i], z |-> 0, wall |-> "front"]]
      rear == [i \in 1..Len(ys) |-> [x |-> L - Inset, y |-> ys[i], z |-> 0, wall |-> "rear"]]
      left == [i \in 1..Len(xs) |-> [x |-> xs[i], y |-> Inset, z |-> 0, wall |-> "left"]]
      right == [i \in 1..Len(xs) |-> [x |-> xs[i], y |-> W - Inset, z |-> 0, wall |-> "right"]]
  IN front \o rear \o left \o right

\* Generate grid positions (along walls only): front, rear, left, right
GridPositions(rm, gridResolution) ==
  LET L == DimToPos(rm.length)
      W == DimToPos(rm.width)
      ys == LoopValues(Inset, W, gridResolution)
      xs == LoopValues(gridResolution, L - gridResolution, gridResolution)
      front == [i \in 1..Len(ys) |-> [x |-> Inset, y |-> ys[i], z |-> 0, wall |-> "front"]]
      rear == [i \in 1..Len(ys) |-> [x |-> L - Inset, y |-> ys[i], z |-> 0, wall |-> "rear"]]
      left == [i \in 1..Len(xs) |-> [x |-> xs[i], y |-> Inset, z |-> 0, wall |-> "left"]]
      right == [i \in 1..Len(xs) |-> [x |-> xs[i], y |-> W - Inset, z |-> 0, wall |-> "right"]]
  IN front \o rear \o left \o right

\* positions.filter(p => p.x < room.length / 2 || p.wall === 'front')
FrontHalf(positions, rm) ==
  SelectSeq(positions, LAMBDA p : 2 * p.x < DimToPos(rm.length) \/ p.wall = "front")

\* a counterpart reflected across the length for every wall
MirrorAcrossLength(pos1, rm) ==
  [x |-> DimToPos(rm.length) - pos1.x,
   y |-> DimToPos(rm.width) - pos1.y,
   z |-> 0]

\* the symmetric counterpart of pos1
Mirror(pos1, rm) ==
  [x |-> IF pos1.wall = "front" THEN pos1.x ELSE DimToPos(rm.length) - pos1.x,
   y |-> DimToPos(rm.width) - pos1.y,
   z |-> 0]

\* ss[lo] \o ... \o ss[hi]
RECURSIVE ConcatRange(_, _, _)
ConcatRange(ss, lo, hi) ==
  IF lo > hi THEN <<>>
  ELSE IF lo = hi THEN ss[lo]
  ELSE LET mid == (lo + hi) \div 2
       IN ConcatRange(ss, lo, mid) \o ConcatRange(ss, mid + 1, hi)

\* the strategies of four or more subwoofers
StrategiesOfFourOrMore == SelectSeq(PLACEMENT_STRATEGIES, LAMBDA st : st.subs >= 4)

\* Object.entries(PLACEMENT_STRATEGIES).filter(([, s]) => s.subs === 4)
QuadStrategies == SelectSeq(PLACEMENT_STRATEGIES, LAMBDA st : st.subs = 4)

\* the pairs the numSubs === 2 loops reach
PairConfigs(positions, frontHalf, rm, options) ==
  ConcatRange([i \in 1..Len(frontHalf) |->
                 IF options.symmetryConstraint
                 THEN << <<frontHalf[i], Mirror(frontHalf[i], rm)>> >>
                 ELSE [k \in 1..(Len(positions) - i) |-> <<frontHalf[i], positions[i + k]>>]],
              1, Len(frontHalf))

\* a search that tests every position for the counts the code leaves out
ConfigsOnElseSingles(positions, numSubs, rm, options) ==
  IF numSubs = 2
  THEN PairConfigs(positions, FrontHalf(positions, rm), rm, options)
  ELSE IF numSubs = 4
       THEN [i \in 1..Len(QuadStrategies) |-> getPositions(QuadStrategies[i].key, rm)]
  ELSE [i \in 1..Len(positions) |-> <<positions[i]>>]

\* the branches of optimizeSubPositions: the configurations each one tests
ConfigsOn(positions, numSubs, rm, options) ==
  IF numSubs = 1 THEN [i \in 1..Len(positions) |-> <<positions[i]>>]
  ELSE IF numSubs = 2
       THEN PairConfigs(positions, FrontHalf(positions, rm), rm, options)
  ELSE IF numSubs = 4
       THEN [i \in 1..Len(QuadStrategies) |-> getPositions(QuadStrategies[i].key, rm)]
  ELSE <<>>

\* the subwoofer position lists optimizeSubPositions passes to scoreSubConfig, in
\* the order its loops reach them
EvaluatedConfigs(numSubs, rm, options) ==
  ConfigsOn(GridPositions(rm, options.gridResolution), numSubs, rm, options)

\* score.overall >= bestScore
AtLeast(a, b) == a # NaN /\ b # NaN /\ a >= b

\* score.overall > bestScore, false when either is NaN
GreaterThan(a, b) == a # NaN /\ b # NaN /\ a > b

\* a loop that never assigns
NoAssignment(overall) == 0

\* The loop "if (score.overall > bestScore) { bestScore = score.overall; bestConfig =
\* ... }", bestScore starting at -Infinity, assigns at pass k exactly when overall[k]
\* exceeds -Infinity and every earlier overall that is a number; bestConfig is the
\* configuration of the last pass that assigned (0: none did).
LastAssignment(overall) ==
  LET assigns == {k \in 1..Len(overall) :
                    /\ GreaterThan(overall[k], NegInf)
                    /\ \A j \in 1..(k - 1) :
                          overall[j] = NaN \/ GreaterThan(overall[k], overall[j])}
  IN IF assigns = {} THEN 0
     ELSE CHOOSE k \in assigns : \A j \in assigns : j <= k

SearchResult(configs, scores, best) ==
  [evaluated |-> [i \in 1..Len(configs) |->
                    [positions |-> configs[i], overall |-> scores[i].overall]],
   bestConfig |-> IF best = 0 THEN Null
                  ELSE [positions |-> configs[best], score |-> scores[best]]]

SearchOver(configs, scores) ==
  SearchResult(configs, scores,
               LastAssignment(SubSeq([i \in 1..Len(scores) |-> scores[i].overall],
                                     1, Len(scores))))

\* scoreSubConfig(configs[i], modes, room, listener) for every i, the nearby modes
\* of the sweep computed once for all the calls
ScoreEach(configs, ms, rm, lp, nearby) ==
  SearchOver(configs,
             SubSeq([i \in 1..Len(configs) |->
                       ScoreWith(configs[i], ms, rm, lp, nearby)],
                    1, Len(configs)))

ScoreAll(configs, ms, rm, lp) ==
  ScoreEach(configs, ms, rm, lp, NearbyTable(SweepFrequencies(DefaultFreqRange), ms))

\* One run of optimizeSubPositions: what it evaluated (the positions and the
\* overall score of each call of scoreSubConfig, in order) and what it returns
GridSearch(numSubs, ms, rm, lp, options) ==
  ScoreAll(EvaluatedConfigs(numSubs, rm, options), ms, rm, lp)

\* Grid search for optimal positions
optimizeSubPositions(numSubs, ms, rm, lp, options) ==
  GridSearch(numSubs, ms, rm, lp, options).bestConfig

\* ------------------------------------------------------------------------
\* The component: derived values
\* ------------------------------------------------------------------------

\* modes.filter(m => m.freq <= 120)
ModesForOptimization(ms) == SelectSeq(ms, LAMBDA m : m.freq <= 120 * FreqUnit)

\* the place of each strategy result in descending order of score.overall, results
\* of equal score keeping their order (the scores are numbers)
OverallRanks(s) ==
  [i \in 1..Len(s) |->
     Cardinality({j \in 1..Len(s) :
                    \/ s[j].score.overall > s[i].score.overall
                    \/ s[j].score.overall = s[i].score.overall /\ j < i}) + 1]

\* no sort: the results in catalog order
KeepCatalogOrder(s) == s

\* Array.prototype.sort with (a, b) => b.score.overall - a.score.overall
SortByOverall(s) == SubSeq(Permuted(s, SubSeq(OverallRanks(s), 1, Len(s))), 1, Len(s))

\* Evaluate ALL predefined strategies (not filtered by numSubs): one entry of the map
StrategyResult(st, ms, rm, lp) ==
  [key |-> st.key,
   strategy |-> st,
   positions |-> getPositions(st.key, rm),
   score |-> scoreSubConfig(getPositions(st.key, rm), ms, rm, lp)]

\* allStrategyResults, before the sort
ScoredStrategies(ms, rm, lp) ==
  SubSeq([i \in 1..Len(PLACEMENT_STRATEGIES) |->
            StrategyResult(PLACEMENT_STRATEGIES[i], ms, rm, lp)],
         1, Len(PLACEMENT_STRATEGIES))

AllStrategyResults(ms, rm, lp) == SortByOverall(ScoredStrategies(ms, rm, lp))

\* arr.slice(from, to)
Slice(arr, from, to) == SubSeq(arr, from + 1, IF to < Len(arr) THEN to ELSE Len(arr))

\* the object the subOptimizerResults memo returns when the panel is shown
ResultsRecord(allStrategyResults, optimizedConfig) ==
  [strategyResults |-> Slice(allStrategyResults, 0, 10),
   allStrategyResults |-> allStrategyResults,
   optimizedConfig |-> optimizedConfig,
   bestStrategy |-> Slice(allStrategyResults, 0, 10)[1]]

\* { symmetryConstraint: subOptimizerConfig.symmetryConstraint }, gridResolution
\* taking its default
OptionsOf(config) ==
  [DefaultOptions EXCEPT !.symmetryConstraint = config.symmetryConstraint]

\* ------------------------------------------------------------------------
\* The values the user enters
\* ------------------------------------------------------------------------

\* feet typed into the Length, Width and Height inputs
RoomLengths == {18 * DimUnit, 12 * DimUnit}
RoomWidths == {14 * DimUnit, 7 * DimUnit}
RoomHeights == {9 * DimUnit}

\* feet typed into the listener inputs, in position units
ListenerXs == {11 * PosUnit}
ListenerYs == {7 * PosUnit, (7 * PosUnit) \div 2}
ListenerZs == {(7 * PosUnit) \div 2}

\* the buttons of "Subs for Grid Search"
NumSubsChoices == {1, 2, 3, 4, 5, 6, 8}

Rooms ==
  {[length |-> l, width |-> w, height |-> h] :
     l \in RoomLengths, w \in RoomWidths, h \in RoomHeights}

Listeners == {[x |-> x, y |-> y, z |-> z] : x \in ListenerXs, y \in ListenerYs, z \in ListenerZs}

Configs == {[numSubs |-> n, symmetryConstraint |-> c] : n \in NumSubsChoices, c \in BOOLEAN}

\* The memos of the component are functions of their dependencies; each is
\* computed once for every value of its dependencies.
ModesMemo ==
  [rm \in Rooms |-> generateModes(rm.length, rm.width, rm.height, 200, 6)]

AllStrategyResultsMemo ==
  [k \in {<<rm, lp>> : rm \in Rooms, lp \in Listeners} |->
     AllStrategyResults(ModesForOptimization(ModesMemo[k[1]]), k[1], k[2])]

GridSearchMemo ==
  [k \in {<<rm, lp, config>> : rm \in Rooms, lp \in Listeners, config \in Configs} |->
     GridSearch(k[3].numSubs, ModesForOptimization(ModesMemo[k[1]]), k[1], k[2],
                OptionsOf(k[3]))]

\* ------------------------------------------------------------------------
\* The component: what it computes from its state
\* ------------------------------------------------------------------------

\* Math.pow(10, speaker.powerOffset / 20) in units of 1/CosScale, for the offsets
\* 0, 6 and -6 dB
PowerFactor(powerOffset) ==
  CASE powerOffset = 0 -> CosScale
    [] powerOffset = 6 -> 19952
    [] powerOffset = -6 -> 5011

\* the modes up to 150 Hz with the pressure at the listener and each speaker's
\* excitation.  The speakers here are monopoles: calcDipoleExcitation is not
\* modelled, and no handler below makes a speaker a 'Large Dipole'.
ModalAnalysis(ms, lp, sp, rm, wo) ==
  LET kept == SelectSeq(ms, LAMBDA m : m.freq <= 150 * FreqUnit)
      Excitation(speaker, mode) ==
        LET excitation == calcPressureAtPosition(speaker.x, speaker.y, speaker.z,
                                                 mode, rm, wo)
        IN [name |-> speaker.name, excitation |-> excitation,
            weighted |-> Mul(excitation, PowerFactor(speaker.powerOffset))]
  IN [i \in 1..Len(kept) |->
        [n |-> kept[i].n, m |-> kept[i].m, l |-> kept[i].l, freq |-> kept[i].freq,
         type |-> kept[i].type, level |-> kept[i].level,
         lpPressure |-> calcPressureAtPosition(lp.x, lp.y, lp.z, kept[i], rm, wo),
         speakerExcitation |-> [k \in 1..Len(sp) |-> Excitation(sp[k], kept[i])]]]

\* each speaker with its boundary nulls and its boundary gain
SpeakerAnalysis(sp, rm, wo) ==
  [k \in 1..Len(sp) |->
     [name |-> sp[k].name, x |-> sp[k].x, y |-> sp[k].y, z |-> sp[k].z,
      type |-> sp[k].type, orientation |-> sp[k].orientation,
      powerOffset |-> sp[k].powerOffset,
      sbir |-> calcSBIR(sp[k], rm),
      boundaryGain |-> calcBoundaryGain(sp[k], rm, wo)]]

\* the bands of keyFindings (Hz)
FindingBands ==
  << [name |-> "Sub-bass", low |-> 20, high |-> 40],
     [name |-> "Deep bass", low |-> 40, high |-> 60],
     [name |-> "Mid-bass", low |-> 60, high |-> 80],
     [name |-> "Upper bass", low |-> 80, high |-> 120] >>

\* nulls (pressure below 0.15), peaks (above 0.85) and the bands whose average
\* pressure is below 0.3 or above 0.7
KeyFindings(analysis) ==
  LET BandModes(band) ==
        SelectSeq(analysis, LAMBDA m : /\ m.freq >= band.low * FreqUnit
                                       /\ m.freq < band.high * FreqUnit)
      AvgPressure(band) ==
        SumSeq([i \in 1..Len(BandModes(band)) |-> BandModes(band)[i].lpPressure])
          \div Len(BandModes(band))
      Finding(band) ==
        [name |-> band.name, low |-> band.low, high |-> band.high,
         avgPressure |-> AvgPressure(band),
         issue |-> IF 100 * AvgPressure(band) < 30 * CosScale THEN "reduced"
                   ELSE "elevated"]
      Problematic(band) ==
        /\ Len(BandModes(band)) > 0
        /\ \/ 100 * AvgPressure(band) < 30 * CosScale
           \/ 100 * AvgPressure(band) > 70 * CosScale
      chosen == SelectSeq(FindingBands, Problematic)
  IN [nulls |-> SelectSeq(analysis, LAMBDA m : 100 * m.lpPressure < 15 * CosScale),
      peaks |-> SelectSeq(analysis, LAMBDA m : 100 * m.lpPressure > 85 * CosScale),
      problematicBands |-> [i \in 1..Len(chosen) |-> Finding(chosen[i])]]

\* Subwoofer optimizer results, for the state after an update
subOptimizerResultsOf(show, config, rm, lp) ==
  IF ~show THEN Null
  ELSE ResultsRecord(AllStrategyResultsMemo[<<rm, lp>>],
                     GridSearchMemo[<<rm, lp, config>>].bestConfig)

evaluatedOf(show, config, rm, lp) ==
  IF ~show THEN <<>> ELSE GridSearchMemo[<<rm, lp, config>>].evaluated

\* The dependency arrays of the five useMemo calls.  A dependency on a memoised
\* value (modes, modalAnalysis) is a dependency on its identity, which changes
\* exactly when that memo recomputes: it is written as the dependencies that memo
\* was computed from.  A state object is compared by its fields: a setter that
\* stores an object of the same fields makes React recompute a value equal to the
\* one kept here.
ModesDeps(rm) == <<rm.length, rm.width, rm.height>>

\* dependencies of modalAnalysis without the wall openings
ModalAnalysisDepsNoOpenings(rm, lp, sp, wo) == <<ModesDeps(rm), lp, sp, rm>>

ModalAnalysisDeps(rm, lp, sp, wo) == <<ModesDeps(rm), lp, sp, rm, wo>>

SpeakerAnalysisDeps(rm, sp, wo) == <<sp, rm, wo>>

KeyFindingsDeps(rm, lp, sp, wo) == <<ModalAnalysisDeps(rm, lp, sp, wo)>>

SubOptimizerDeps(show, config, rm, lp) == <<show, config, rm, lp, ModesDeps(rm)>>

\* the dependencies of a render
DepsOf(rm, lp, show, config, wo, sp) ==
  [modes |-> ModesDeps(rm),
   modalAnalysis |-> ModalAnalysisDeps(rm, lp, sp, wo),
   speakerAnalysis |-> SpeakerAnalysisDeps(rm, sp, wo),
   keyFindings |-> KeyFindingsDeps(rm, lp, sp, wo),
   subOptimizerResults |-> SubOptimizerDeps(show, config, rm, lp)]

\* useMemo: the value kept while the dependencies are those of the last
\* computation, else a fresh one
UseMemo(lastDeps, deps, kept, fresh) == IF deps = lastDeps THEN kept ELSE fresh

\* ------------------------------------------------------------------------
\* The component: state and handlers
\* ------------------------------------------------------------------------

VARIABLES
  room,                \* useState: { length, width, height } (feet)
  wallOpenings,        \* useState: { front, rear, left, right } (percent)
  listener,            \* useState: { x, y, z } in position units
  speakers,            \* useState: the list of speakers
  eqAvailable,         \* useState: { main, sub }
  crossoverFreq,       \* useState: null or a frequency (Hz)
  showSubOptimizer,    \* useState: the optimizer panel is shown
  subOptimizerConfig,  \* useState: { numSubs, symmetryConstraint }
  importText,          \* useState: the text of the Load Configuration box
  clipboard,           \* the text last copied by Copy Config or Copy Permalink
  urlConfig,           \* the parameter c of the URL until the mount effect has read it
  lastLoad,            \* the load the last handler made, or Null
  memoDeps,            \* the dependencies each useMemo last computed from
  modes,               \* useMemo: generateModes(room..., 200)
  modalAnalysis,       \* useMemo
  speakerAnalysis,     \* useMemo
  keyFindings,         \* useMemo
  subOptimizerResults, \* useMemo: null while the panel is hidden
  evaluated,           \* the calls of scoreSubConfig the last grid search made
  call,                \* a call of a pure function under test, or Null
  returned             \* [value |-> what the call returned], or Null

\* the state of the component
component == <<room, wallOpenings, listener, speakers, eqAvailable, crossoverFreq,
               showSubOptimizer, subOptimizerConfig, importText, clipboard, urlConfig,
               lastLoad,
               memoDeps, modes, modalAnalysis, speakerAnalysis, keyFindings,
               subOptimizerResults, evaluated>>

vars == <<component, call, returned>>

\* a render after the state setters of a handler: every useMemo compares its
\* dependencies with those of its last computation
Render(rm, lp, show, config, wo, sp) ==
  LET deps == DepsOf(rm, lp, show, config, wo, sp)
  IN /\ room' = rm
     /\ listener' = lp
     /\ showSubOptimizer' = show
     /\ subOptimizerConfig' = config
     /\ wallOpenings' = wo
     /\ speakers' = sp
     /\ memoDeps' = deps
     /\ modes' = UseMemo(memoDeps.modes, deps.modes, modes, ModesMemo[rm])
     /\ modalAnalysis' = UseMemo(memoDeps.modalAnalysis, deps.modalAnalysis, modalAnalysis,
                                 ModalAnalysis(modes', lp, sp, rm, wo))
     /\ speakerAnalysis' = UseMemo(memoDeps.speakerAnalysis, deps.speakerAnalysis,
                                   speakerAnalysis, SpeakerAnalysis(sp, rm, wo))
     /\ keyFindings' = UseMemo(memoDeps.keyFindings, deps.keyFindings, keyFindings,
                               KeyFindings(modalAnalysis'))
     /\ subOptimizerResults' = UseMemo(memoDeps.subOptimizerResults,
                                       deps.subOptimizerResults, subOptimizerResults,
                                       subOptimizerResultsOf(show, config, rm, lp))
     /\ evaluated' = UseMemo(memoDeps.subOptimizerResults, deps.subOptimizerResults,
                             evaluated, evaluatedOf(show, config, rm, lp))
     /\ UNCHANGED <<eqAvailable, crossoverFreq, importText, clipboard, urlConfig,
                    lastLoad, call, returned>>

DefaultRoom == [length |-> 18 * DimUnit, width |-> 14 * DimUnit, height |-> 9 * DimUnit]

DefaultListener == [x |-> 11 * PosUnit, y |-> 7 * PosUnit, z |-> (7 * PosUnit) \div 2]

DefaultConfig == [numSubs |-> 2, symmetryConstraint |-> TRUE]

\* A text is followed by what JSON.parse makes of it: [json |-> value], or
\* [json |-> Unparseable] for a text JSON.parse throws on; the empty text is apart.
EmptyText == [empty |-> TRUE]

DefaultWallOpenings == [front |-> 0, rear |-> 0, left |-> 0, right |-> 0]

Speaker(name, x, y, z, type) ==
  [name |-> name, x |-> x, y |-> y, z |-> z, type |-> type,
   orientation |-> 0, powerOffset |-> 0]

DefaultSpeakers ==
  << Speaker("Front Left", 2 * PosUnit, 2 * PosUnit, 3 * PosUnit, "Small Ported"),
     Speaker("Front Right", 2 * PosUnit, 12 * PosUnit, 3 * PosUnit, "Small Ported"),
     Speaker("Sub 1", 1 * PosUnit, 1 * PosUnit, 0, "Subwoofer Sealed"),
     Speaker("Sub 2", 1 * PosUnit, 13 * PosUnit, 0, "Subwoofer Sealed") >>

DefaultEqAvailable == [main |-> FALSE, sub |-> TRUE]

\* the component after its first render
Mounted ==
  /\ room = DefaultRoom
  /\ wallOpenings = DefaultWallOpenings
  /\ listener = DefaultListener
  /\ speakers = DefaultSpeakers
  /\ eqAvailable = DefaultEqAvailable
  /\ crossoverFreq = Null
  /\ showSubOptimizer = FALSE
  /\ subOptimizerConfig = DefaultConfig
  /\ importText = EmptyText
  /\ clipboard = EmptyText
  /\ lastLoad = Null
  /\ memoDeps = DepsOf(DefaultRoom, DefaultListener, FALSE, DefaultConfig,
                       DefaultWallOpenings, DefaultSpeakers)
  /\ modes = ModesMemo[DefaultRoom]
  /\ modalAnalysis = ModalAnalysis(ModesMemo[DefaultRoom], DefaultListener,
                                   DefaultSpeakers, DefaultRoom, DefaultWallOpenings)
  /\ speakerAnalysis = SpeakerAnalysis(DefaultSpeakers, DefaultRoom, DefaultWallOpenings)
  /\ keyFindings = KeyFindings(modalAnalysis)
  /\ subOptimizerResults = Null
  /\ evaluated = <<>>

\* the page opened at a URL that carries no configuration
Init ==
  /\ Mounted
  /\ urlConfig = Null
  /\ call = Null
  /\ returned = Null

\* onChange={v => setRoom({...room, length: v})}
SetRoomLength ==
  \E v \in RoomLengths :
    Render([room EXCEPT !.length = v], listener, showSubOptimizer, subOptimizerConfig,
           wallOpenings, speakers)

SetRoomWidth ==
  \E v \in RoomWidths :
    Render([room EXCEPT !.width = v], listener, showSubOptimizer, subOptimizerConfig,
           wallOpenings, speakers)

SetRoomHeight ==
  \E v \in RoomHeights :
    Render([room EXCEPT !.height = v], listener, showSubOptimizer, subOptimizerConfig,
           wallOpenings, speakers)

\* onChange={v => setListener({...listener, x: v})}
SetListenerX ==
  \E v \in ListenerXs :
    Render(room, [listener EXCEPT !.x = v], showSubOptimizer, subOptimizerConfig,
           wallOpenings, speakers)

SetListenerY ==
  \E v \in ListenerYs :
    Render(room, [listener EXCEPT !.y = v], showSubOptimizer, subOptimizerConfig,
           wallOpenings, speakers)

SetListenerZ ==
  \E v \in ListenerZs :
    Render(room, [listener EXCEPT !.z = v], showSubOptimizer, subOptimizerConfig,
           wallOpenings, speakers)

\* onClick={() => setShowSubOptimizer(!showSubOptimizer)}
ToggleSubOptimizer ==
  Render(room, listener, ~showSubOptimizer, subOptimizerConfig, wallOpenings, speakers)

\* onClick={() => setSubOptimizerConfig({ ...subOptimizerConfig, numSubs: n })}; the
\* buttons are rendered while the panel is shown
SetNumSubs ==
  /\ showSubOptimizer
  /\ \E n \in NumSubsChoices :
       Render(room, listener, showSubOptimizer, [subOptimizerConfig EXCEPT !.numSubs = n],
              wallOpenings, speakers)

\* the checkbox "Enforce Left/Right Symmetry"
SetSymmetryConstraint ==
  /\ showSubOptimizer
  /\ \E checked \in BOOLEAN :
       Render(room, listener, showSubOptimizer,
              [subOptimizerConfig EXCEPT !.symmetryConstraint = checked],
              wallOpenings, speakers)

Next ==
  \/ SetRoomLength
  \/ SetRoomWidth
  \/ SetRoomHeight
  \/ SetListenerX
  \/ SetListenerY
  \/ SetListenerZ
  \/ ToggleSubOptimizer
  \/ SetNumSubs
  \/ SetSymmetryConstraint

Spec == Init /\ [][Next]_vars

\* ------------------------------------------------------------------------
\* The component: wall openings and speakers
\* ------------------------------------------------------------------------

\* the percentages entered for the walls
FrontOpenings == {0, 50}
RearOpenings == {0}
LeftOpenings == {0}
RightOpenings == {0}

\* onChange={v => setWallOpenings({...wallOpenings, front: v})}
SetFrontOpening ==
  \E v \in FrontOpenings :
    Render(room, listener, showSubOptimizer, subOptimizerConfig,
           [wallOpenings EXCEPT !.front = v], speakers)

SetRearOpening ==
  \E v \in RearOpenings :
    Render(room, listener, showSubOptimizer, subOptimizerConfig,
           [wallOpenings EXCEPT !.rear = v], speakers)

SetLeftOpening ==
  \E v \in LeftOpenings :
    Render(room, listener, showSubOptimizer, subOptimizerConfig,
           [wallOpenings EXCEPT !.left = v], speakers)

SetRightOpening ==
  \E v \in RightOpenings :
    Render(room, listener, showSubOptimizer, subOptimizerConfig,
           [wallOpenings EXCEPT !.right = v], speakers)

\* the speakers whose Remove button is clicked, counted from 1
RemovedIndexes == {1}

\* speakers.filter((_, i) => i !== index)
RemoveSpeaker ==
  \E index \in RemovedIndexes \cap (1..Len(speakers)) :
    Render(room, listener, showSubOptimizer, subOptimizerConfig, wallOpenings,
           [i \in 1..(Len(speakers) - 1) |->
              IF i < index THEN speakers[i] ELSE speakers[i + 1]])

\* the most speakers the list is grown to
MaxSpeakers == 5

\* the names typed into a speaker's name field
SpeakerNames == {"Sub 1"}

\* `Speaker ${speakers.length + 1}`
SpeakerLabel(n) ==
  CASE n = 1 -> "Speaker 1"
    [] n = 2 -> "Speaker 2"
    [] n = 3 -> "Speaker 3"
    [] n = 4 -> "Speaker 4"
    [] n = 5 -> "Speaker 5"
    [] n = 6 -> "Speaker 6"

\* updateSpeaker(index, newSpeaker) from the name field of SpeakerInput:
\* onChange(index, { ...speaker, name: e.target.value })
UpdateSpeaker ==
  \E index \in 1..Len(speakers) :
    \E newSpeaker \in {[speakers[index] EXCEPT !.name = v] : v \in SpeakerNames} :
      Render(room, listener, showSubOptimizer, subOptimizerConfig, wallOpenings,
             [speakers EXCEPT ![index] = newSpeaker])

\* the button "+ Add Speaker"
AddSpeaker ==
  /\ Len(speakers) < MaxSpeakers
  /\ Render(room, listener, showSubOptimizer, subOptimizerConfig, wallOpenings,
            Append(speakers,
                   Speaker(SpeakerLabel(Len(speakers) + 1), DimToPos(room.length) \div 2,
                           DimToPos(room.width) \div 2, 0, "Small Sealed")))

NextApp ==
  \/ Next
  \/ SetFrontOpening
  \/ SetRearOpening
  \/ SetLeftOpening
  \/ SetRightOpening
  \/ AddSpeaker

\* the component under changes of the room, the listener, the wall openings, the
\* speakers and the optimizer settings
SpecApp == Init /\ [][NextApp]_vars

NextSpeakers ==
  \/ UpdateSpeaker
  \/ RemoveSpeaker
  \/ AddSpeaker

\* the component under edits of the speaker list
SpecSpeakers == Init /\ [][NextSpeakers]_vars

\* Number.prototype.toFixed(1) of a value v >= 0 in units of 1/CosScale: the
\* number of tenths printed
ToFixed1(v) == (10 * v + CosScale \div 2) \div CosScale

\* generateLLMPrompt: the tenths of a dB printed after "Boundary gain: +" under
\* each speaker, from speakerAnalysis.find(sa => sa.name === s.name)
PromptBoundaryGains ==
  [i \in 1..Len(speakers) |->
     LET found == {k \in 1..Len(speakerAnalysis) : speakerAnalysis[k].name = speakers[i].name}
     IN IF found = {} THEN 0
        ELSE ToFixed1(speakerAnalysis[CHOOSE k \in found : \A j \in found : k <= j].boundaryGain)]

\* ------------------------------------------------------------------------
\* The component: saving and loading a configuration
\* ------------------------------------------------------------------------

\* JSON values, each a record named after its kind; null is Null
Num(n) == [num |-> n]

Str(t) == [str |-> t]

Bool(b) == [bool |-> b]

Arr(items) == [array |-> items]

Obj(fields) == [object |-> fields]

\* what reading a missing property or array element gives
Undefined == [undefined |-> TRUE]

\* what stands for the value of a text JSON.parse throws on
Unparseable == [unparseable |-> TRUE]

IsNum(j) == "num" \in DOMAIN j

IsStr(j) == "str" \in DOMAIN j

IsBool(j) == "bool" \in DOMAIN j

IsArr(j) == "array" \in DOMAIN j

IsObj(j) == "object" \in DOMAIN j

\* the test of `if (value)`
Truthy(j) ==
  IF IsNum(j) THEN j.num # 0
  ELSE IF IsStr(j) THEN j.str # ""
  ELSE IF IsBool(j) THEN j.bool
  ELSE IsArr(j) \/ IsObj(j)

\* value.f and value[i] throw a TypeError on null and undefined
ReadThrows(j) == j = Null \/ j = Undefined

\* value.f
Get(j, f) == IF IsObj(j) /\ f \in DOMAIN j.object THEN j.object[f] ELSE Undefined

\* value[i], i counted from 0
At(j, i) == IF IsArr(j) /\ i < Len(j.array) THEN j.array[i + 1] ELSE Undefined

\* A number of the state that came out of a document.  The state of this model
\* holds integers there: a value that is no number (a missing element) is followed
\* as NaN.
Stored(j) == IF IsNum(j) THEN j.num ELSE NaN

\* a name or a type of the state that came out of a document
StoredText(j) == IF IsStr(j) THEN j.str ELSE ""

\* value || 0 on a number
OrZero(n) == IF n = 0 \/ n = NaN THEN 0 ELSE n

\* JSON.stringify of a number: NaN is written as null
JsonNumber(n) == IF n = NaN THEN Null ELSE Num(n)

\* the part of the state that is saved
ConfigOf(rm, wo, lp, sp, eq, c) ==
  [room |-> rm, wallOpenings |-> wo, listener |-> lp, speakers |-> sp,
   eqAvailable |-> eq, crossoverFreq |-> c]

CurrentConfig ==
  ConfigOf(room, wallOpenings, listener, speakers, eqAvailable, crossoverFreq)

\* JSON.stringify({ version: 1, room, wallOpenings, listener, speakers,
\* eqAvailable, crossoverFreq }, null, 2)
serializeState(st) ==
  [json |->
     Obj([version |-> Num(1),
          room |-> Obj([length |-> JsonNumber(st.room.length),
                        width |-> JsonNumber(st.room.width),
                        height |-> JsonNumber(st.room.height)]),
          wallOpenings |-> Obj([front |-> JsonNumber(st.wallOpenings.front),
                                rear |-> JsonNumber(st.wallOpenings.rear),
                                left |-> JsonNumber(st.wallOpenings.left),
                                right |-> JsonNumber(st.wallOpenings.right)]),
          listener |-> Obj([x |-> JsonNumber(st.listener.x),
                            y |-> JsonNumber(st.listener.y),
                            z |-> JsonNumber(st.listener.z)]),
          speakers |-> Arr([k \in 1..Len(st.speakers) |->
                              Obj([name |-> Str(st.speakers[k].name),
                                   x |-> JsonNumber(st.speakers[k].x),
                                   y |-> JsonNumber(st.speakers[k].y),
                                   z |-> JsonNumber(st.speakers[k].z),
                                   type |-> Str(st.speakers[k].type),
                                   orientation |-> JsonNumber(st.speakers[k].orientation),
                                   powerOffset |-> JsonNumber(st.speakers[k].powerOffset)])]),
          eqAvailable |-> Obj([main |-> Bool(st.eqAvailable.main),
                               sub |-> Bool(st.eqAvailable.sub)]),
          crossoverFreq |-> st.crossoverFreq])]

\* JSON.stringify({ v: 1, r: [...], w: [...], l: [...], s: [...], e: [...], c })
serializeCompact(st) ==
  [json |->
     Obj([v |-> Num(1),
          r |-> Arr(<<JsonNumber(st.room.length), JsonNumber(st.room.width),
                      JsonNumber(st.room.height)>>),
          w |-> Arr(<<JsonNumber(st.wallOpenings.front), JsonNumber(st.wallOpenings.rear),
                      JsonNumber(st.wallOpenings.left), JsonNumber(st.wallOpenings.right)>>),
          l |-> Arr(<<JsonNumber(st.listener.x), JsonNumber(st.listener.y),
                      JsonNumber(st.listener.z)>>),
          s |-> Arr([k \in 1..Len(st.speakers) |->
                       Arr(<<Str(st.speakers[k].name), JsonNumber(st.speakers[k].x),
                             JsonNumber(st.speakers[k].y), JsonNumber(st.speakers[k].z),
                             Str(st.speakers[k].type),
                             Num(OrZero(st.speakers[k].orientation)),
                             Num(OrZero(st.speakers[k].powerOffset))>>)]),
          e |-> Arr(<<Num(IF st.eqAvailable.main THEN 1 ELSE 0),
                      Num(IF st.eqAvailable.sub THEN 1 ELSE 0)>>),
          c |-> st.crossoverFreq])]

\* The setters deserializeCompact calls, in order.  data.s.map throws when data.s
\* is no array, and its callback when an element is null; the setters called
\* before that have been called.
deserializeCompact(data, st) ==
  LET r == Get(data, "r")
      w == Get(data, "w")
      l == Get(data, "l")
      s == Get(data, "s")
      e == Get(data, "e")
      c == Get(data, "c")
      s1 == IF Truthy(r)
            THEN [st EXCEPT !.room = [length |-> Stored(At(r, 0)), width |-> Stored(At(r, 1)),
                                      height |-> Stored(At(r, 2))]]
            ELSE st
      s2 == IF Truthy(w)
            THEN [s1 EXCEPT !.wallOpenings =
                    [front |-> Stored(At(w, 0)), rear |-> Stored(At(w, 1)),
                     left |-> Stored(At(w, 2)), right |-> Stored(At(w, 3))]]
            ELSE s1
      s3 == IF Truthy(l)
            THEN [s2 EXCEPT !.listener = [x |-> Stored(At(l, 0)), y |-> Stored(At(l, 1)),
                                          z |-> Stored(At(l, 2))]]
            ELSE s2
      mapThrows == /\ Truthy(s)
                   /\ \/ ~IsArr(s)
                      \/ \E k \in 1..Len(s.array) : ReadThrows(s.array[k])
      s4 == IF Truthy(s)
            THEN [s3 EXCEPT !.speakers =
                    [k \in 1..Len(s.array) |->
                       [name |-> StoredText(At(s.array[k], 0)),
                        x |-> Stored(At(s.array[k], 1)),
                        y |-> Stored(At(s.array[k], 2)),
                        z |-> Stored(At(s.array[k], 3)),
                        type |-> StoredText(At(s.array[k], 4)),
                        orientation |-> OrZero(Stored(At(s.array[k], 5))),
                        powerOffset |-> OrZero(Stored(At(s.array[k], 6)))]]]
            ELSE s3
      s5 == IF Truthy(e)
            THEN [s4 EXCEPT !.eqAvailable = [main |-> At(e, 0) = Num(1),
                                             sub |-> At(e, 1) = Num(1)]]
            ELSE s4
      s6 == IF Truthy(c) THEN [s5 EXCEPT !.crossoverFreq = c] ELSE s5
  IN IF mapThrows THEN [config |-> s3, threw |-> TRUE]
     ELSE [config |-> s6, threw |-> FALSE]

\* the verbose branch of deserializeState: each part of the document that is
\* there is stored as it is.  The documents loaded here carry a list of speaker
\* objects or no speakers; eqAvailable is followed by the truth of its fields.
deserializeVerbose(data, st) ==
  LET rm == Get(data, "room")
      wo == Get(data, "wallOpenings")
      lp == Get(data, "listener")
      sp == Get(data, "speakers")
      eq == Get(data, "eqAvailable")
      c == Get(data, "crossoverFreq")
      s1 == IF Truthy(rm)
            THEN [st EXCEPT !.room = [length |-> Stored(Get(rm, "length")),
                                      width |-> Stored(Get(rm, "width")),
                                      height |-> Stored(Get(rm, "height"))]]
            ELSE st
      s2 == IF Truthy(wo)
            THEN [s1 EXCEPT !.wallOpenings =
                    [front |-> Stored(Get(wo, "front")), rear |-> Stored(Get(wo, "rear")),
                     left |-> Stored(Get(wo, "left")), right |-> Stored(Get(wo, "right"))]]
            ELSE s1
      s3 == IF Truthy(lp)
            THEN [s2 EXCEPT !.listener = [x |-> Stored(Get(lp, "x")), y |-> Stored(Get(lp, "y")),
                                          z |-> Stored(Get(lp, "z"))]]
            ELSE s2
      s4 == IF Truthy(sp)
            THEN [s3 EXCEPT !.speakers =
                    [k \in 1..Len(sp.array) |->
                       [name |-> StoredText(Get(sp.array[k], "name")),
                        x |-> Stored(Get(sp.array[k], "x")),
                        y |-> Stored(Get(sp.array[k], "y")),
                        z |-> Stored(Get(sp.array[k], "z")),
                        type |-> StoredText(Get(sp.array[k], "type")),
                        orientation |-> Stored(Get(sp.array[k], "orientation")),
                        powerOffset |-> Stored(Get(sp.array[k], "powerOffset"))]]]
            ELSE s3
      s5 == IF Truthy(eq)
            THEN [s4 EXCEPT !.eqAvailable = [main |-> Truthy(Get(eq, "main")),
                                             sub |-> Truthy(Get(eq, "sub"))]]
            ELSE s4
  IN IF Truthy(c) THEN [s5 EXCEPT !.crossoverFreq = c] ELSE s5

\* deserializeState(jsonStr): the configuration after it, whether the catch
\* clause called alert, and whether setImportText('') was called
deserializeState(text, st) ==
  LET data == text.json
      Failed(config) == [config |-> config, reported |-> TRUE, cleared |-> FALSE]
      Loaded(config) == [config |-> config, reported |-> FALSE, cleared |-> TRUE]
  IN IF data = Unparseable \/ ReadThrows(data) THEN Failed(st)
     ELSE IF Truthy(Get(data, "v")) /\ Truthy(Get(data, "r"))
     THEN LET out == deserializeCompact(data, st)
          IN IF out.threw THEN Failed(out.config) ELSE Loaded(out.config)
     ELSE Loaded(deserializeVerbose(data, st))

\* btoa(str) with the three replacements, as the text it was made from
toUrlSafe(text) == [base64 |-> text]

\* a parameter c that is no base64 text: atob throws
NotBase64 == [base64 |-> Unparseable]

\* the mount effect on a parameter c: fromUrlSafe, JSON.parse and
\* deserializeCompact in a try whose catch clause calls console.error
loadFromUrl(configParam, st) ==
  LET text == configParam.base64
      Failed(config) == [config |-> config, reported |-> TRUE]
  IN IF text = Unparseable THEN Failed(st)
     ELSE IF text.json = Unparseable \/ ReadThrows(text.json) THEN Failed(st)
     ELSE LET out == deserializeCompact(text.json, st)
          IN [config |-> out.config, reported |-> out.threw]

\* what is typed into the Length, Width and Height fields of the room
LengthTexts == {"", "-5", "12"}
WidthTexts == {"14"}
HeightTexts == {"9"}

\* what is typed into the Crossover field
CrossoverTexts == {"", "80"}

\* parseFloat of the texts typed
parseFloat(text) ==
  CASE text = "" -> NaN
    [] text = "-5" -> -5
    [] text = "9" -> 9
    [] text = "12" -> 12
    [] text = "14" -> 14
    [] text = "80" -> 80

\* what the memos hold in the specification of saving and loading, which follows
\* the state handed to them and not what they make of it
NotFollowed == [notFollowed |-> TRUE]

\* the render after the setters of a handler of this section
SetConfig(st) ==
  LET deps == DepsOf(st.room, st.listener, showSubOptimizer, subOptimizerConfig,
                     st.wallOpenings, st.speakers)
  IN /\ room' = st.room
     /\ wallOpenings' = st.wallOpenings
     /\ listener' = st.listener
     /\ speakers' = st.speakers
     /\ eqAvailable' = st.eqAvailable
     /\ crossoverFreq' = st.crossoverFreq
     /\ memoDeps' = deps
     /\ modes' = UseMemo(memoDeps.modes, deps.modes, modes, NotFollowed)
     /\ modalAnalysis' = UseMemo(memoDeps.modalAnalysis, deps.modalAnalysis,
                                 modalAnalysis, NotFollowed)
     /\ speakerAnalysis' = UseMemo(memoDeps.speakerAnalysis, deps.speakerAnalysis,
                                   speakerAnalysis, NotFollowed)
     /\ keyFindings' = UseMemo(memoDeps.keyFindings, deps.keyFindings, keyFindings,
                               NotFollowed)
     /\ subOptimizerResults' = UseMemo(memoDeps.subOptimizerResults,
                                       deps.subOptimizerResults, subOptimizerResults,
                                       IF showSubOptimizer THEN NotFollowed ELSE Null)
     /\ evaluated' = UseMemo(memoDeps.subOptimizerResults, deps.subOptimizerResults,
                             evaluated, IF showSubOptimizer THEN NotFollowed ELSE <<>>)
     /\ UNCHANGED <<showSubOptimizer, subOptimizerConfig, call, returned>>

\* NumberInput of the room's Length: onChange(parseFloat(e.target.value) || 0),
\* then setRoom({...room, length: v})
ChangeLengthInput ==
  /\ urlConfig = Null
  /\ \E text \in LengthTexts :
       SetConfig([CurrentConfig EXCEPT !.room.length = OrZero(parseFloat(text)) * DimUnit])
  /\ lastLoad' = Null
  /\ UNCHANGED <<importText, clipboard, urlConfig>>

ChangeWidthInput ==
  /\ urlConfig = Null
  /\ \E text \in WidthTexts :
       SetConfig([CurrentConfig EXCEPT !.room.width = OrZero(parseFloat(text)) * DimUnit])
  /\ lastLoad' = Null
  /\ UNCHANGED <<importText, clipboard, urlConfig>>

ChangeHeightInput ==
  /\ urlConfig = Null
  /\ \E text \in HeightTexts :
       SetConfig([CurrentConfig EXCEPT !.room.height = OrZero(parseFloat(text)) * DimUnit])
  /\ lastLoad' = Null
  /\ UNCHANGED <<importText, clipboard, urlConfig>>

\* setCrossoverFreq(e.target.value === '' ? null : parseFloat(e.target.value) || null)
ChangeCrossoverInput ==
  /\ urlConfig = Null
  /\ \E text \in CrossoverTexts :
       SetConfig([CurrentConfig EXCEPT
                    !.crossoverFreq = IF text = "" \/ OrZero(parseFloat(text)) = 0 THEN Null
                                      ELSE Num(parseFloat(text))])
  /\ lastLoad' = Null
  /\ UNCHANGED <<importText, clipboard, urlConfig>>

\* the button "Copy Config": navigator.clipboard.writeText(serializeState())
CopyConfig ==
  /\ urlConfig = Null
  /\ clipboard' = serializeState(CurrentConfig)
  /\ lastLoad' = Null
  /\ UNCHANGED <<room, wallOpenings, listener, speakers, eqAvailable, crossoverFreq,
                 showSubOptimizer, subOptimizerConfig, importText, urlConfig, memoDeps,
                 modes, modalAnalysis, speakerAnalysis, keyFindings, subOptimizerResults,
                 evaluated, call, returned>>

\* a configuration other than the default one: a room 12 ft long, the front wall
\* half open, the first speaker renamed, EQ on the mains, a crossover of 80 Hz
SavedConfig ==
  ConfigOf([DefaultRoom EXCEPT !.length = 12 * DimUnit],
           [DefaultWallOpenings EXCEPT !.front = 50],
           [DefaultListener EXCEPT !.x = 6 * PosUnit],
           [DefaultSpeakers EXCEPT ![1].name = "Mains"],
           [main |-> TRUE, sub |-> FALSE], Num(80))

\* the default configuration
DefaultConfiguration ==
  ConfigOf(DefaultRoom, DefaultWallOpenings, DefaultListener, DefaultSpeakers,
           DefaultEqAvailable, Null)

\* the value of a compact document, one part replaced
CompactWith(part, value) ==
  Obj([serializeCompact(DefaultConfiguration).json.object EXCEPT ![part] = value])

\* texts other than exports: one that JSON.parse throws on, the texts null and 5,
\* a compact document whose room is 0 ft long, one whose room has one number, one
\* of a room 12 ft long whose speakers are a number, and a verbose document that
\* is a room 0 ft long and nothing else
OtherTexts ==
  { [json |-> Unparseable],
    [json |-> Null],
    [json |-> Num(5)],
    [json |-> CompactWith("r", Arr(<<Num(0), Num(14 * DimUnit), Num(9 * DimUnit)>>))],
    [json |-> CompactWith("r", Arr(<<Num(18 * DimUnit)>>))],
    [json |-> Obj([CompactWith("r", Arr(<<Num(12 * DimUnit), Num(14 * DimUnit),
                                           Num(9 * DimUnit)>>)).object
                     EXCEPT !.s = Num(5)])],
    [json |-> Obj([room |-> Obj([length |-> Num(0), width |-> Num(14 * DimUnit),
                                 height |-> Num(9 * DimUnit)])])] }

\* the texts pasted into the box: the clipboard, the compact and the verbose text
\* of two configurations, and the other texts
PastedTexts ==
  {clipboard, serializeCompact(SavedConfig), serializeState(SavedConfig),
   serializeCompact(DefaultConfiguration), serializeState(DefaultConfiguration)}
    \cup OtherTexts

\* onChange={e => setImportText(e.target.value)}
PasteImportText ==
  /\ urlConfig = Null
  /\ importText' \in PastedTexts
  /\ lastLoad' = Null
  /\ UNCHANGED <<room, wallOpenings, listener, speakers, eqAvailable, crossoverFreq,
                 showSubOptimizer, subOptimizerConfig, clipboard, urlConfig, memoDeps,
                 modes, modalAnalysis, speakerAnalysis, keyFindings, subOptimizerResults,
                 evaluated, call, returned>>

\* the button "Load Configuration", disabled while the box is empty:
\* deserializeState(importText)
LoadConfiguration ==
  /\ urlConfig = Null
  /\ importText # EmptyText
  /\ LET out == deserializeState(importText, CurrentConfig)
     IN /\ SetConfig(out.config)
        /\ importText' = IF out.cleared THEN EmptyText ELSE importText
        /\ lastLoad' = [text |-> importText, reported |-> out.reported]
  /\ UNCHANGED <<clipboard, urlConfig>>

\* the parameters c a page is opened with: the permalinks of the two
\* configurations, and texts that are no permalink
UrlParams ==
  {toUrlSafe(serializeCompact(SavedConfig)), toUrlSafe(serializeCompact(DefaultConfiguration)),
   NotBase64}
    \cup {toUrlSafe(text) : text \in OtherTexts}

\* the mount effect, run once after the first render when the URL has a
\* parameter c
LoadFromUrl ==
  /\ urlConfig # Null
  /\ LET out == loadFromUrl(urlConfig, CurrentConfig)
     IN /\ SetConfig(out.config)
        /\ lastLoad' = [text |-> urlConfig, reported |-> out.reported]
  /\ urlConfig' = Null
  /\ UNCHANGED <<importText, clipboard>>

\* the page opened at a URL with or without a parameter c
InitConfig ==
  /\ Mounted
  /\ urlConfig \in {Null} \cup UrlParams
  /\ call = Null
  /\ returned = Null

NextConfig ==
  \/ LoadFromUrl
  \/ ChangeLengthInput
  \/ ChangeWidthInput
  \/ ChangeHeightInput
  \/ ChangeCrossoverInput
  \/ CopyConfig
  \/ PasteImportText
  \/ LoadConfiguration

\* the component under edits of the room and the crossover, copies, pastes and loads
SpecConfig == InitConfig /\ [][NextConfig]_vars

\* ------------------------------------------------------------------------
\* The pure functions, called on their own
\* ------------------------------------------------------------------------

\* the largest room dimension (feet) and mode order of a call of generateModes
MaxDimension == 4
MaxOrder == 2

\* maxFreq (Hz); 565 Hz is the frequency of mode (2,0,0) of a room 2 ft long
MaxFreqs == {100, 200, 565}

\* the calls of generateModes; maxOrder = 6 is the default of the parameter
ModeCalls ==
  [fn : {"generateModes"},
   length : {d * DimUnit : d \in 2..MaxDimension},
   width : {d * DimUnit : d \in 2..MaxDimension},
   height : {d * DimUnit : d \in 2..MaxDimension},
   maxFreq : MaxFreqs, maxOrder : (0..MaxOrder) \cup {6}]

\* the subwoofer lists of a call of scoreSubConfig: none, each wall candidate of
\* the grid search and each catalog placement
SubLists(rm) ==
  {<<>>}
    \cup {<<GridPositions(rm, DefaultOptions.gridResolution)[i]>> :
            i \in 1..Len(GridPositions(rm, DefaultOptions.gridResolution))}
    \cup {getPositions(PLACEMENT_STRATEGIES[i].key, rm) : i \in 1..Len(PLACEMENT_STRATEGIES)}

\* the calls of scoreSubConfig: in the default room and in the smallest one, on the
\* room's modes up to 200 Hz, on those up to 120 Hz and on no mode
ScoreCalls ==
  {[fn |-> "scoreSubConfig", subPositions |-> sp, modes |-> ms, room |-> rm, listener |-> lp] :
     <<sp, ms, rm, lp>> \in
       UNION {SubLists(r) \X {ModesMemo[r], ModesForOptimization(ModesMemo[r]), <<>>}
                \X {r} \X Listeners :
                r \in {DefaultRoom, [length |-> 12 * DimUnit, width |-> 7 * DimUnit, height |-> 9 * DimUnit]}}}

\* the calls of calcPredictedFR: subwoofers in a corner of the room itself, at the
\* inset corner, at the front/rear midwall pair and in the four inset corners; the
\* listener at the default seat or in the front left corner; the default sweep and
\* a short one
PredictCalls ==
  {[fn |-> "calcPredictedFR", subPositions |-> sp, modes |-> ModesForOptimization(ModesMemo[rm]),
    room |-> rm, listener |-> lp, freqRange |-> fr] :
     rm \in {DefaultRoom,
             [length |-> 12 * DimUnit, width |-> 7 * DimUnit, height |-> 9 * DimUnit]},
     sp \in {<<Pos(DimToPos(18 * DimUnit), 0)>>, <<Pos(0, DimToPos(7 * DimUnit))>>,
             <<Pos(Inset, Inset)>>,
             getPositions("dual-front-rear-midwall", DefaultRoom),
             getPositions("quad-corners", DefaultRoom)},
     lp \in {DefaultListener, [x |-> 0, y |-> 0, z |-> (7 * PosUnit) \div 2]},
     fr \in {DefaultFreqRange, <<40, 60>>}}

\* the calls of optimizeSubPositions: a room too small for any wall candidate
\* (3 ft by 0.5 ft), one of 4 ft by 1 ft and one of 12 ft by 7 ft; no mode, or
\* the modes of the last room up to 120 Hz
SearchCalls ==
  {[fn |-> "optimizeSubPositions", numSubs |-> n, modes |-> ms, room |-> rm,
    listener |-> DefaultListener,
    options |-> [gridResolution |-> DefaultOptions.gridResolution,
                 symmetryConstraint |-> c]] :
     n \in {1, 2, 4},
     ms \in {<<>>,
             ModesForOptimization(
               ModesMemo[[length |-> 12 * DimUnit, width |-> 7 * DimUnit,
                          height |-> 9 * DimUnit]])},
     rm \in {[length |-> 6, width |-> 1, height |-> 9 * DimUnit],
             [length |-> 4 * DimUnit, width |-> 1 * DimUnit, height |-> 9 * DimUnit],
             [length |-> 12 * DimUnit, width |-> 7 * DimUnit, height |-> 9 * DimUnit]},
     c \in BOOLEAN}

\* the calls of a strategy's getPositions: rooms of 1 ft to MaxDimension ft a side,
\* and the default room
PositionCalls ==
  {[fn |-> "getPositions", key |-> PLACEMENT_STRATEGIES[i].key, room |-> rm] :
     i \in 1..Len(PLACEMENT_STRATEGIES),
     rm \in {DefaultRoom}
            \cup {[length |-> l * DimUnit, width |-> w * DimUnit, height |-> 9 * DimUnit] :
                    l \in 1..MaxDimension, w \in 1..MaxDimension}}

\* the calls of calcSBIR and calcBoundaryGain: a speaker of the default room at
\* x = 0.1, 0.5, 1.9, 2, 3, 16, 17.5 or 17.9 ft, y = 0.1, 0.5, 13.5 or 13.9 ft and
\* z = 0, 3 or 7.5 ft; the walls closed, partly open or fully open
BoundaryCalls ==
  LET placed == {[x |-> x, y |-> y, z |-> z, type |-> ty] :
                     x \in {20, 100, 380, 400, 600, 3200, 3500, 3580},
                     y \in {20, 100, 2700, 2780},
                     z \in {0, 600, 1500},
                     ty \in {"Subwoofer Sealed", "Large Dipole"}}
      openings == {[front |-> 0, rear |-> 0, left |-> 0, right |-> 0],
                   [front |-> 50, rear |-> 0, left |-> 25, right |-> 0],
                   [front |-> 0, rear |-> 100, left |-> 0, right |-> 10],
                   [front |-> 100, rear |-> 100, left |-> 100, right |-> 100]}
  IN {[fn |-> "calcSBIR", speaker |-> sp, room |-> DefaultRoom] : sp \in placed}
       \cup {[fn |-> "calcBoundaryGain", speaker |-> sp, room |-> DefaultRoom,
               wallOpenings |-> wo] : sp \in placed, wo \in openings}

\* the calls of calcPressureAtPosition: the first modes of the default room, at
\* positions on and off their nodes, the walls closed, partly open or fully open
PressureCalls ==
  {[fn |-> "calcPressureAtPosition", x |-> x, y |-> y, z |-> z,
    mode |-> ModesMemo[DefaultRoom][i], room |-> DefaultRoom, wallOpenings |-> wo] :
     x \in {0, Inset, 9 * PosUnit, 11 * PosUnit},
     y \in {2 * PosUnit, 7 * PosUnit},
     z \in {0, (9 * PosUnit) \div 2},
     i \in 1..8,
     wo \in {[front |-> 0, rear |-> 0, left |-> 0, right |-> 0],
             [front |-> 100, rear |-> 100, left |-> 0, right |-> 0],
             [front |-> 0, rear |-> 0, left |-> 100, right |-> 100],
             [front |-> 50, rear |-> 0, left |-> 25, right |-> 0],
             [front |-> 100, rear |-> 0, left |-> 0, right |-> 0]}}

InitCalls ==
  /\ Mounted
  /\ urlConfig = Null
  /\ call \in ModeCalls \cup ScoreCalls \cup PredictCalls \cup SearchCalls
               \cup PositionCalls \cup BoundaryCalls \cup PressureCalls
  /\ returned = Null

ReturnModes ==
  /\ call.fn = "generateModes"
  /\ returned = Null
  /\ returned' = [value |-> generateModes(call.length, call.width, call.height,
                                          call.maxFreq, call.maxOrder)]
  /\ UNCHANGED <<component, call>>

ReturnScore ==
  /\ call.fn = "scoreSubConfig"
  /\ returned = Null
  /\ returned' = [value |-> scoreSubConfig(call.subPositions, call.modes, call.room,
                                           call.listener)]
  /\ UNCHANGED <<component, call>>

ReturnFR ==
  /\ call.fn = "calcPredictedFR"
  /\ returned = Null
  /\ returned' = [value |-> calcPredictedFR(call.subPositions, call.modes, call.room,
                                            call.listener, call.freqRange)]
  /\ UNCHANGED <<component, call>>

\* the return of optimizeSubPositions, with the calls of scoreSubConfig it made
ReturnSearch ==
  /\ call.fn = "optimizeSubPositions"
  /\ returned = Null
  /\ LET Outcome(run) == [value |-> run.bestConfig, evaluated |-> run.evaluated]
     IN returned' = Outcome(GridSearch(call.numSubs, call.modes, call.room,
                                       call.listener, call.options))
  /\ UNCHANGED <<component, call>>

ReturnPositions ==
  /\ call.fn = "getPositions"
  /\ returned = Null
  /\ returned' = [value |-> getPositions(call.key, call.room)]
  /\ UNCHANGED <<component, call>>

ReturnSBIR ==
  /\ call.fn = "calcSBIR"
  /\ returned = Null
  /\ returned' = [value |-> calcSBIR(call.speaker, call.room)]
  /\ UNCHANGED <<component, call>>

ReturnBoundaryGain ==
  /\ call.fn = "calcBoundaryGain"
  /\ returned = Null
  /\ returned' = [value |-> calcBoundaryGain(call.speaker, call.room, call.wallOpenings)]
  /\ UNCHANGED <<component, call>>

ReturnPressure ==
  /\ call.fn = "calcPressureAtPosition"
  /\ returned = Null
  /\ returned' = [value |-> calcPressureAtPosition(call.x, call.y, call.z, call.mode,
                                                   call.room, call.wallOpenings)]
  /\ UNCHANGED <<component, call>>

NextCalls ==
  \/ ReturnModes
  \/ ReturnScore
  \/ ReturnFR
  \/ ReturnSearch
  \/ ReturnPositions
  \/ ReturnSBIR
  \/ ReturnBoundaryGain
  \/ ReturnPressure

SpecCalls == InitCalls /\ [][NextCalls]_vars

\* ------------------------------------------------------------------------
\* Properties of generateModes
\* ------------------------------------------------------------------------

ModesReturned == returned # Null /\ call.fn = "generateModes"

IndexOf(md) == <<md.n, md.m, md.l>>

\* (c/2) * sqrt((n/L)^2 + (m/W)^2 + (l/H)^2) for the index triple t of a call
FormulaFreq(t, c) ==
  Sqrt(ModeTerm(t[1], c.length) + ModeTerm(t[2], c.width) + ModeTerm(t[3], c.height))

\* the index triples of a call that are in range: each index in 0..maxOrder, not all
\* zero, frequency in (0, maxFreq]
TriplesInRange(c) ==
  {t \in (0..c.maxOrder) \X (0..c.maxOrder) \X (0..c.maxOrder) :
     /\ t # <<0, 0, 0>>
     /\ FormulaFreq(t, c) > 0
     /\ FormulaFreq(t, c) <= c.maxFreq * FreqUnit}

\* C1: generateModes returns exactly the modes whose indices are in 0..maxOrder, not
\* all zero, and whose frequency is above 0 and at most maxFreq: every such triple
\* appears exactly once, with the frequency of the formula, and no other appears.
C1_ExactlyTheModesInRange ==
  ModesReturned =>
    LET ms == returned.value
    IN /\ {IndexOf(ms[i]) : i \in 1..Len(ms)} = TriplesInRange(call)
       /\ \A i, j \in 1..Len(ms) : IndexOf(ms[i]) = IndexOf(ms[j]) => i = j
       /\ \A i \in 1..Len(ms) : ms[i].freq = FormulaFreq(IndexOf(ms[i]), call)

\* a call that returned a mode exactly at maxFreq and left out a triple above it
C1_Witness ==
  /\ ModesReturned
  /\ \E i \in 1..Len(returned.value) :
       returned.value[i].freq = call.maxFreq * FreqUnit
  /\ Len(returned.value) > 1
  /\ Len(returned.value) < (call.maxOrder + 1) * (call.maxOrder + 1) * (call.maxOrder + 1) - 1

\* C2: the list generateModes returns is in non-decreasing order of frequency and
\* never contains the index triple (0,0,0).
C2_SortedWithoutZeroMode ==
  ModesReturned =>
    LET ms == returned.value
    IN /\ \A i \in 1..(Len(ms) - 1) : ms[i].freq <= ms[i + 1].freq
       /\ \A i \in 1..Len(ms) : IndexOf(ms[i]) # <<0, 0, 0>>

\* a call whose modes were pushed out of order, two of them of equal frequency
C2_Witness ==
  /\ ModesReturned
  /\ returned.value #
       PushedModes(call.length, call.width, call.height, call.maxFreq, call.maxOrder)
  /\ \E i \in 1..(Len(returned.value) - 1) :
       returned.value[i].freq = returned.value[i + 1].freq
  /\ \E i \in 1..(Len(returned.value) - 1) :
       returned.value[i].freq < returned.value[i + 1].freq

NonZeroCount(md) == Cardinality({i \in 1..3 : IndexOf(md)[i] # 0})

\* C3: every mode generateModes returns is classified by its number of nonzero
\* indices: one gives axial at level 0, two give tangential at level -3, three give
\* oblique at level -6, and there is no other combination of type and level.
C3_ClassifiedByNonZeroIndices ==
  ModesReturned =>
    \A i \in 1..Len(returned.value) :
      LET md == returned.value[i]
      IN /\ NonZeroCount(md) = 1 => md.type = "axial" /\ md.level = 0
         /\ NonZeroCount(md) = 2 => md.type = "tangential" /\ md.level = -3
         /\ NonZeroCount(md) = 3 => md.type = "oblique" /\ md.level = -6
         /\ <<md.type, md.level>> \in
              {<<"axial", 0>>, <<"tangential", -3>>, <<"oblique", -6>>}

\* a call that returned modes of all three types
C3_Witness ==
  /\ ModesReturned
  /\ \A ty \in {"axial", "tangential", "oblique"} :
       \E i \in 1..Len(returned.value) : returned.value[i].type = ty

\* ------------------------------------------------------------------------
\* Properties of the grid search
\* ------------------------------------------------------------------------

\* the panel is shown and numSubs is n
ShownWith(n) == showSubOptimizer /\ subOptimizerConfig.numSubs = n

\* the sampled wall candidates of the current room
Candidates == GridPositions(room, DefaultOptions.gridResolution)

\* the returned configuration is the evaluated one of the highest overall score, the
\* first of them on a tie
ReturnsFirstBest(best) ==
  \E k \in 1..Len(evaluated) :
    /\ best.positions = evaluated[k].positions
    /\ best.score.overall = evaluated[k].overall
    /\ \A j \in 1..Len(evaluated) : evaluated[j].overall <= evaluated[k].overall
    /\ \A j \in 1..(k - 1) : evaluated[j].overall < evaluated[k].overall

WallOrder(wall) ==
  CASE wall = "front" -> 1 [] wall = "rear" -> 2 [] wall = "left" -> 3 [] wall = "right" -> 4

\* C4: with numSubs = 1 the search scores every sampled wall candidate, front wall
\* by ascending y, then rear, left, right, and returns the one of the maximum overall
\* score, the first scanned of those that share the maximum.
C4_SingleSubFirstBest ==
  ShownWith(1) =>
    /\ Len(evaluated) = Len(Candidates)
    /\ \A i \in 1..Len(evaluated) : evaluated[i].positions = <<Candidates[i]>>
    /\ \A i, j \in 1..Len(evaluated) :
         i < j =>
           LET p == evaluated[i].positions[1]
               q == evaluated[j].positions[1]
           IN /\ WallOrder(p.wall) <= WallOrder(q.wall)
              /\ p.wall = "front" /\ q.wall = "front" => p.y < q.y
    /\ ReturnsFirstBest(subOptimizerResults.optimizedConfig)

\* a single-sub search in which several candidates share the maximum and the one
\* returned is not the first candidate of the scan
C4_Witness ==
  /\ ShownWith(1)
  /\ \E j, k \in 1..Len(evaluated) :
       /\ 1 < j /\ j < k
       /\ subOptimizerResults.optimizedConfig.positions = evaluated[j].positions
       /\ evaluated[k].overall = evaluated[j].overall
       /\ evaluated[1].overall < evaluated[j].overall

Asymmetric == ShownWith(2) /\ ~subOptimizerConfig.symmetryConstraint

\* scoreSubConfig([a, b], ...).overall for two candidates of the current room
PairScore(a, b) ==
  scoreSubConfig(<<a, b>>, ModesForOptimization(modes), room, listener).overall

\* C5: with numSubs = 2 and symmetryConstraint = false the search evaluates all
\* unordered pairs of candidates: every pair of two distinct candidates is scored,
\* no candidate is paired with itself, and the overall score of the returned pair
\* is at least the score of every pair of distinct candidates.
C5_AllUnorderedPairs ==
  Asymmetric =>
    /\ \A i \in 1..Len(evaluated) :
         evaluated[i].positions[1] # evaluated[i].positions[2]
    /\ \A a, b \in 1..Len(Candidates) :
         a # b =>
           \E i \in 1..Len(evaluated) :
             \/ evaluated[i].positions = <<Candidates[a], Candidates[b]>>
             \/ evaluated[i].positions = <<Candidates[b], Candidates[a]>>
    /\ \A a, b \in 1..Len(Candidates) :
         a # b =>
           PairScore(Candidates[a], Candidates[b])
             <= subOptimizerResults.optimizedConfig.score.overall

\* The code pairs frontHalf[i] with positions[j] for j > i, i being an index of
\* frontHalf and j one of positions.  A search that scored a candidate together
\* with itself, never scored some pair of two distinct candidates, and returned a
\* pair that such an unscored pair beats (the room made 12 ft by 7 ft).
C5_Witness ==
  /\ Asymmetric
  /\ room = [length |-> 12 * DimUnit, width |-> 7 * DimUnit, height |-> 9 * DimUnit]
  /\ \E i \in 1..Len(evaluated) :
       evaluated[i].positions[1] = evaluated[i].positions[2]
  /\ \E a, b \in 1..Len(Candidates) :
       /\ a < b
       /\ \A i \in 1..Len(evaluated) :
            /\ evaluated[i].positions # <<Candidates[a], Candidates[b]>>
            /\ evaluated[i].positions # <<Candidates[b], Candidates[a]>>
       /\ PairScore(Candidates[a], Candidates[b])
            > subOptimizerResults.optimizedConfig.score.overall

Symmetric == ShownWith(2) /\ subOptimizerConfig.symmetryConstraint

\* C6: with numSubs = 2 and symmetry every evaluated pair, and so the returned one,
\* is a candidate of the front half (x < length / 2, or on the front wall) with its
\* mirror: y2 = width - y1, x2 = x1 for a front-wall point and length - x1 otherwise,
\* z2 = 0; mirroring y2 back gives y1.
C6_SymmetricPairsAreMirrors ==
  Symmetric =>
    /\ \A i \in 1..Len(evaluated) :
         LET pos1 == evaluated[i].positions[1]
             pos2 == evaluated[i].positions[2]
         IN /\ Len(evaluated[i].positions) = 2
            /\ \E c \in 1..Len(Candidates) : Candidates[c] = pos1
            /\ 2 * pos1.x < DimToPos(room.length) \/ pos1.wall = "front"
            /\ pos2.y = DimToPos(room.width) - pos1.y
            /\ pos2.x = IF pos1.wall = "front" THEN pos1.x
                        ELSE DimToPos(room.length) - pos1.x
            /\ pos2.z = 0
            /\ DimToPos(room.width) - pos2.y = pos1.y
    /\ \E i \in 1..Len(evaluated) :
         subOptimizerResults.optimizedConfig.positions = evaluated[i].positions

\* a symmetric search that evaluated a front-wall point and a side-wall point
C6_Witness ==
  /\ Symmetric
  /\ \E i, j \in 1..Len(evaluated) :
       /\ evaluated[i].positions[1].wall = "front"
       /\ evaluated[j].positions[1].wall = "left"
       /\ evaluated[j].positions[2].x # evaluated[j].positions[1].x
  /\ subOptimizerResults.optimizedConfig # Null

C8_OtherCountsReturnNull ==
  showSubOptimizer /\ subOptimizerConfig.numSubs \notin {1, 2, 4} =>
    /\ evaluated = <<>>
    /\ subOptimizerResults.optimizedConfig = Null
    /\ Len(subOptimizerResults.allStrategyResults) = Len(PLACEMENT_STRATEGIES)
    /\ Len(subOptimizerResults.strategyResults) = 10
    /\ subOptimizerResults.bestStrategy = subOptimizerResults.strategyResults[1]

\* the panel shown with numSubs = 3 in a room whose walls have candidates
C8_Witness ==
  /\ ShownWith(3)
  /\ Candidates # <<>>
  /\ subOptimizerResults.optimizedConfig = Null
  /\ subOptimizerResults.bestStrategy.score.overall >= 0

\* ------------------------------------------------------------------------
\* Properties of the catalog ranking and of the score
\* ------------------------------------------------------------------------

\* C9: whenever the panel is shown all 18 catalog strategies are scored, whatever
\* their subs count and the selected numSubs and symmetryConstraint; the reported
\* list holds the 10 highest-scoring ones in non-increasing order of overall score,
\* no unreported strategy scores strictly higher than a reported one, and
\* bestStrategy is the first entry of the list.
C9_AllStrategiesRanked ==
  showSubOptimizer =>
    LET all == subOptimizerResults.allStrategyResults
        top == subOptimizerResults.strategyResults
    IN /\ Len(PLACEMENT_STRATEGIES) = 18
       /\ Len(all) = 18
       /\ \A i \in 1..18 : \E j \in 1..18 : all[j].strategy = PLACEMENT_STRATEGIES[i]
       /\ \A j \in 1..18 :
            /\ all[j].key = all[j].strategy.key
            /\ all[j].positions = getPositions(all[j].key, room)
            /\ all[j].score.overall =
                 scoreSubConfig(all[j].positions, ModesForOptimization(modes), room,
                                listener).overall
       /\ Len(top) = 10
       /\ \A i \in 1..10 : top[i] = all[i]
       /\ \A i \in 1..9 : top[i].score.overall >= top[i + 1].score.overall
       /\ \A i \in 1..10 : \A j \in 11..18 : all[j].score.overall <= top[i].score.overall
       /\ subOptimizerResults.bestStrategy = top[1]

\* a ranking that differs from the catalog order, leaves out a strategy scoring
\* strictly lower than every reported one, with numSubs = 3 selected
C9_Witness ==
  /\ ShownWith(3)
  /\ \E i \in 1..10 :
       subOptimizerResults.strategyResults[i].strategy # PLACEMENT_STRATEGIES[i]
  /\ subOptimizerResults.allStrategyResults[11].score.overall
       < subOptimizerResults.strategyResults[10].score.overall
  /\ subOptimizerResults.bestStrategy.strategy.subs # 3

ScoreReturned == returned # Null /\ call.fn = "scoreSubConfig"

\* the dB values of a predicted curve
DbValuesOf(fr) == {fr[i].dB : i \in 1..Len(fr)}

\* the largest dB value of a curve minus the smallest, -Infinity being below every
\* number
SpreadOf(fr) ==
  LET hi == CHOOSE v \in DbValuesOf(fr) : \A w \in DbValuesOf(fr) : w <= v
      lo == CHOOSE v \in DbValuesOf(fr) : \A w \in DbValuesOf(fr) : v <= w
  IN hi - lo

ReturnedFrom(fn) == returned # Null /\ call.fn = fn

\* C11: the baseline of 0.5 keeps the total pressure of every sweep point away from
\* 0, so that the dB value of every sweep point calcPredictedFR returns is finite.
C11_BaselinePreventsLogOfZero ==
  ReturnedFrom("calcPredictedFR") =>
    \A i \in 1..Len(returned.value) :
      /\ returned.value[i].pressure # 0
      /\ IsFinite(returned.value[i].dB)

\* One subwoofer in the rear left corner of the 18 ft by 14 ft room (x = length,
\* y = 0), the listener in the front left corner: near 50 Hz only the tangential
\* mode (1,1,0) contributes, -1 * 1 * 0.5, the total is -0.5 + 0.5 = 0 and the dB
\* value is -Infinity.
C11_Witness ==
  /\ ReturnedFrom("calcPredictedFR")
  /\ call.room = DefaultRoom
  /\ call.subPositions = <<Pos(DimToPos(DefaultRoom.length), 0)>>
  /\ call.listener.x = 0 /\ call.listener.y = 0
  /\ \E i \in 1..Len(returned.value) :
       /\ returned.value[i].freq = 50
       /\ returned.value[i].pressure = 0
       /\ returned.value[i].dB = NegInf
       /\ \E k \in 1..Len(call.modes) :
            /\ IndexOf(call.modes[k]) = <<1, 1, 0>>
            /\ NearbyModes(call.modes, 50) = <<k>>
            /\ ModeContribution(call.subPositions, call.modes[k], call.room,
                                call.listener) = - Baseline

\* ------------------------------------------------------------------------
\* Properties of optimizeSubPositions, called on its own
\* ------------------------------------------------------------------------

\* C12 as stated: for numSubs 1, 2 or 4 and every room of positive dimensions the
\* search returns a configuration of numSubs positions; it returns null only when
\* no configuration it scored has a finite score.
C12_NeverNullInAnyRoom ==
  ReturnedFrom("optimizeSubPositions") =>
    /\ returned.value # Null
    /\ Len(returned.value.positions) = call.numSubs
    /\ returned.value = Null =>
         \A i \in 1..Len(returned.evaluated) : ~IsFinite(returned.evaluated[i].overall)

\* C12: for numSubs 1 or 2 the search returns a configuration of numSubs positions
\* exactly when the room has a wall candidate (width > 0.5 ft, or length > 3 ft at
\* the grid step of 1.5 ft) and null when it has none; for numSubs 4 it always
\* returns one of 4 positions; null is returned only when no configuration it
\* scored has a finite score.
C12_NullOnlyWithoutCandidates ==
  ReturnedFrom("optimizeSubPositions") =>
    LET noCandidate ==
          /\ call.numSubs \in {1, 2}
          /\ DimToPos(call.room.width) <= Inset
          /\ DimToPos(call.room.length) <= 2 * call.options.gridResolution
    IN /\ noCandidate <=> GridPositions(call.room, call.options.gridResolution) = <<>>
                            /\ call.numSubs # 4
       /\ noCandidate <=> returned.value = Null
       /\ returned.value # Null => Len(returned.value.positions) = call.numSubs
       /\ returned.value = Null =>
            \A i \in 1..Len(returned.evaluated) :
              ~IsFinite(returned.evaluated[i].overall)

\* a search for one subwoofer in the room of 3 ft by 0.5 ft: nothing is scored and
\* null is returned
C12_Witness ==
  /\ ReturnedFrom("optimizeSubPositions")
  /\ call.numSubs = 1
  /\ call.room.length = 3 * DimUnit /\ 2 * call.room.width = DimUnit
  /\ returned.evaluated = <<>>
  /\ returned.value = Null

\* ------------------------------------------------------------------------
\* Properties of calcSBIR, calcBoundaryGain and calcPressureAtPosition
\* ------------------------------------------------------------------------

\* C13: calcSBIR returns one entry for each of the six boundaries whose distance d
\* (as the function computes it) satisfies 0.1 < d < 15 and none for the others;
\* the frequency of an entry is 1130 / (2 d), and the entries are in ascending
\* order of frequency.
C13_SbirEntriesInRange ==
  ReturnedFrom("calcSBIR") =>
    LET d == BoundaryDistances(call.speaker, call.room)
        inRange == {i \in 1..6 : /\ DoubleLess(DoubleOf(1, 10), d[i].distance)
                                 /\ DoubleLess(d[i].distance, DoubleOf(15, 1))}
        v == returned.value
    IN /\ Len(v) = Cardinality(inRange)
       /\ \A i \in inRange : \E k \in 1..Len(v) : v[k].boundary = d[i].boundary
       /\ \A k \in 1..Len(v) :
            \E i \in inRange :
              /\ v[k].boundary = d[i].boundary
              /\ v[k].distance = d[i].distance
              /\ v[k].freq = (1130 * FreqUnit * LimbBase)
                               \div (2 * (d[i].distance[1] * LimbBase + d[i].distance[2]))
       /\ \A k \in 1..(Len(v) - 1) : v[k].freq <= v[k + 1].freq

\* a speaker 3 ft from the front wall and 0.1 ft from the left wall of the default
\* room: the rear wall, 15 ft away, and the left wall and the floor have no entry;
\* the right wall, the farthest in range, comes first
C13_Witness ==
  /\ ReturnedFrom("calcSBIR")
  /\ call.speaker.x = 3 * PosUnit /\ call.speaker.y = PosUnit \div 10
  /\ call.speaker.z = 0
  /\ Len(returned.value) = 3
  /\ returned.value[1].boundary = "Right wall"
  /\ returned.value[1].freq < returned.value[2].freq

\* C14: calcBoundaryGain is the sum, over the boundaries less than 2 ft from the
\* source, of g (1.5 for a 'Large Dipole', 3 for every other type), the term of each
\* of the four walls multiplied by (1 - opening / 100) of that wall, the terms of
\* the floor and the ceiling by nothing.
C14_GainSumsNearBoundaries ==
  ReturnedFrom("calcBoundaryGain") =>
    LET d == BoundaryDistances(call.speaker, call.room)
        g == IF call.speaker.type = "Large Dipole" THEN (3 * CosScale) \div 2
             ELSE 3 * CosScale
        opening == <<call.wallOpenings.front, call.wallOpenings.rear,
                     call.wallOpenings.left, call.wallOpenings.right>>
        Near(i) == DoubleLess(d[i].distance, DoubleOf(2, 1))
    IN returned.value =
         SumSeq([i \in 1..4 |-> IF Near(i) THEN (g * (100 - opening[i])) \div 100 ELSE 0])
           + g * Cardinality({i \in 5..6 : Near(i)})

\* a dipole on the floor, 0.5 ft from the front wall (50% open) and from the left
\* wall (25% open): 1.5 + 0.75 + 1.125 dB
C14_Witness ==
  /\ ReturnedFrom("calcBoundaryGain")
  /\ call.speaker.type = "Large Dipole"
  /\ call.speaker.x = Inset /\ call.speaker.y = Inset /\ call.speaker.z = 0
  /\ call.wallOpenings.front = 50 /\ call.wallOpenings.left = 25
  /\ returned.value = (3375 * CosScale) \div 1000

\* the source of a call mirrored to (length - x, width - y, z)
MirroredSpeaker ==
  [call.speaker EXCEPT !.x = DimToPos(call.room.length) - call.speaker.x,
                       !.y = DimToPos(call.room.width) - call.speaker.y]

\* the source and its mirror image have the same SBIR null frequencies and, the
\* walls closed, the same boundary gain
MirrorAgrees ==
  /\ ReturnedFrom("calcSBIR") =>
       {returned.value[k].freq : k \in 1..Len(returned.value)}
         = {calcSBIR(MirroredSpeaker, call.room)[k].freq :
              k \in 1..Len(calcSBIR(MirroredSpeaker, call.room))}
  /\ ReturnedFrom("calcBoundaryGain")
       /\ call.wallOpenings = [front |-> 0, rear |-> 0, left |-> 0, right |-> 0]
       => returned.value = calcBoundaryGain(MirroredSpeaker, call.room, call.wallOpenings)

\* C15 as stated: with no wall openings a source at (x, y, z) and the source
\* mirrored to (length - x, width - y, z) have the same boundary gain and the same
\* set of SBIR null frequencies.
C15_MirroredSourceAgrees == MirrorAgrees

\* C15: with no wall openings a source at (x, y, z), x and y multiples of 0.5 ft
\* (which length - x and width - y then are without rounding), and the source
\* mirrored to (length - x, width - y, z) have the same boundary gain and the same
\* set of SBIR null frequencies; so have (0.5, 0.5, 0) and (17.5, 13.5, 0) in the
\* room of 18 by 14 by 9 ft.
C15_MirroredSourceAgreesOnHalfFeet ==
  (ReturnedFrom("calcSBIR") \/ ReturnedFrom("calcBoundaryGain"))
     /\ call.speaker.x % Inset = 0 /\ call.speaker.y % Inset = 0
    => MirrorAgrees

\* the corner (0.5, 0.5, 0) of the default room: the nulls of its mirror image
\* (17.5, 13.5, 0) are at the same frequencies, from other walls
C15_Witness ==
  /\ ReturnedFrom("calcSBIR")
  /\ call.room = DefaultRoom
  /\ call.speaker.x = Inset /\ call.speaker.y = Inset /\ call.speaker.z = 0
  /\ MirroredSpeaker.x = 35 * Inset /\ MirroredSpeaker.y = 27 * Inset
  /\ Len(returned.value) = 4
  /\ \E k \in 1..4 :
       /\ returned.value[k].boundary = "Front wall"
       /\ \E j \in 1..4 :
            /\ calcSBIR(MirroredSpeaker, call.room)[j].boundary = "Rear wall"
            /\ calcSBIR(MirroredSpeaker, call.room)[j].freq = returned.value[k].freq

C17_CancelledModeContributesNothing ==
  ReturnedFrom("calcPredictedFR") =>
    \A i \in 1..Len(call.modes) :
      SumSeq([k \in 1..Len(call.subPositions) |->
                calcPressureWithSign(call.subPositions[k], call.modes[i], call.room)]) = 0 =>
        calcPredictedFR(call.subPositions,
                        SubSeq(call.modes, 1, i - 1)
                          \o SubSeq(call.modes, i + 1, Len(call.modes)),
                        call.room, call.listener, call.freqRange)
          = returned.value

\* two subwoofers that excite a mode of the sweep with equal magnitude and opposite
\* sign, the listener coupled to that mode
C17_Witness ==
  /\ ReturnedFrom("calcPredictedFR")
  /\ Len(call.subPositions) = 2
  /\ \E i \in 1..Len(call.modes) :
       /\ calcPressureWithSign(call.subPositions[1], call.modes[i], call.room) > 0
       /\ calcPressureWithSign(call.subPositions[2], call.modes[i], call.room)
            = - calcPressureWithSign(call.subPositions[1], call.modes[i], call.room)
       /\ calcPressureWithSign(call.listener, call.modes[i], call.room) # 0
       /\ \E k \in 1..Len(returned.value) : IsNearby(call.modes[i], returned.value[k].freq)

\* ------------------------------------------------------------------------
\* Properties of the placement catalog
\* ------------------------------------------------------------------------

\* C18: the position function of every catalog strategy returns as many positions
\* as the strategy's subs count, which is 1, 2, 3, 4, 5, 6 or 8, each with z = 0.
C18_AsManyPositionsAsSubs ==
  ReturnedFrom("getPositions") =>
    \A i \in 1..Len(PLACEMENT_STRATEGIES) :
      PLACEMENT_STRATEGIES[i].key = call.key =>
        /\ Len(returned.value) = PLACEMENT_STRATEGIES[i].subs
        /\ PLACEMENT_STRATEGIES[i].subs \in {1, 2, 3, 4, 5, 6, 8}
        /\ \A k \in 1..Len(returned.value) : returned.value[k].z = 0

\* the eight positions of a strategy of eight subwoofers, in a room other than the
\* default one
C18_Witness ==
  /\ ReturnedFrom("getPositions")
  /\ call.room # DefaultRoom
  /\ Len(returned.value) = 8
  /\ \E i \in 1..Len(PLACEMENT_STRATEGIES) :
       PLACEMENT_STRATEGIES[i].key = call.key /\ PLACEMENT_STRATEGIES[i].subs = 8

\* every position returned is at least 0.5 ft from the four walls
KeepsClearance ==
  \A k \in 1..Len(returned.value) :
    /\ 2 * returned.value[k].x >= PosUnit
    /\ 2 * returned.value[k].x <= 2 * DimToPos(call.room.length) - PosUnit
    /\ 2 * returned.value[k].y >= PosUnit
    /\ 2 * returned.value[k].y <= 2 * DimToPos(call.room.width) - PosUnit

\* C19 as stated: in every room of length >= 1 ft and width >= 1 ft every catalog
\* position keeps 0.5 ft of clearance from the four walls.
C19_ClearanceFromOneFoot ==
  ReturnedFrom("getPositions") /\ call.room.length >= 1 * DimUnit /\ call.room.width >= 1 * DimUnit
    => KeepsClearance

\* C19: in every room of length >= 2 ft and width >= 4 ft every catalog position
\* keeps 0.5 ft of clearance from the four walls (0.5 <= x <= length - 0.5 and
\* 0.5 <= y <= width - 0.5).
C19_ClearanceInRoomsWideEnough ==
  ReturnedFrom("getPositions") /\ call.room.length >= 2 * DimUnit /\ call.room.width >= 4 * DimUnit
    => KeepsClearance

\* the Double Bass Array in a room 4 ft wide: its outer positions are exactly 0.5 ft
\* from the side walls (width * 0.125 and width * 0.875)
C19_Witness ==
  /\ ReturnedFrom("getPositions")
  /\ call.key = "quad-double-bass-array"
  /\ call.room.width = 4 * DimUnit
  /\ returned.value[1].y = Inset
  /\ returned.value[4].y = DimToPos(call.room.width) - Inset

\* ------------------------------------------------------------------------
\* scoreSubConfig on an empty mode list
\* ------------------------------------------------------------------------

\* C20: with an empty mode list scoreSubConfig returns (without an error) a curve of
\* the 51 sweep frequencies 20, 22, ..., 120 Hz whose pressure is 0.5 everywhere, a
\* peakToPeak of 0, an overall of 100 and an empty modeDetails list, whatever the
\* subwoofer positions.
C20_EmptyModeListIsFlat ==
  ScoreReturned /\ call.modes = <<>> =>
    LET score == returned.value
    IN /\ Len(score.fr) = 51
       /\ \A i \in 1..51 : /\ score.fr[i].freq = 20 + 2 * (i - 1)
                           /\ score.fr[i].pressure = CosScale \div 2
       /\ score.peakToPeak = 0
       /\ score.overall = 100 * DbUnit
       /\ score.modeDetails = <<>>

\* a call with no mode and eight subwoofers
C20_Witness ==
  /\ ScoreReturned
  /\ call.modes = <<>>
  /\ Len(call.subPositions) = 8
  /\ returned.value.overall = 100 * DbUnit

\* ------------------------------------------------------------------------
\* Properties of the modal band and of the mode details
\* ------------------------------------------------------------------------

\* the sum of the signed excitations of a mode by the subwoofers of the call
SummedExcitation(mode) ==
  SumSeq([k \in 1..Len(call.subPositions) |->
            calcPressureWithSign(call.subPositions[k], mode, call.room)])

\* the modes of the call's list within f / 8 of the sweep frequency f
ModesInBand(f) ==
  {i \in 1..Len(call.modes) : 8 * Abs(call.modes[i].freq - f * FreqUnit) < f * FreqUnit}

\* the weight of the claim: 1.0 if axial, 0.5 if tangential, 0.25 if oblique
WeightOfType(type) ==
  CASE type = "axial" -> CosScale
    [] type = "tangential" -> CosScale \div 2
    [] type = "oblique" -> CosScale \div 4

\* C25: at each sweep frequency f, calcPredictedFR adds up the contributions of
\* exactly the modes of its list with |mode.freq - f| < f / 8, each weighted 1.0 if
\* axial, 0.5 if tangential and 0.25 if oblique (on top of the baseline); a mode
\* outside the band contributes nothing at f.
C25_ContributionsFromTheBand ==
  ReturnedFrom("calcPredictedFR") =>
    LET weighted == [i \in 1..Len(call.modes) |->
                       Mul(Mul(SummedExcitation(call.modes[i]),
                               calcPressureWithSign(call.listener, call.modes[i], call.room)),
                           WeightOfType(call.modes[i].type))]
    IN \A k \in 1..Len(returned.value) :
         returned.value[k].pressure
           = SumSeq([i \in 1..Len(call.modes) |->
                       IF i \in ModesInBand(returned.value[k].freq) THEN weighted[i] ELSE 0])
               + CosScale \div 2

\* a sweep point with modes of the three types in its band, each with a non-zero
\* contribution, and a mode outside the band that would contribute as well
C25_Witness ==
  /\ ReturnedFrom("calcPredictedFR")
  /\ \E k \in 1..Len(returned.value) :
       /\ \A t \in {"axial", "tangential", "oblique"} :
            \E i \in ModesInBand(returned.value[k].freq) :
              /\ call.modes[i].type = t
              /\ ModeContribution(call.subPositions, call.modes[i], call.room,
                                  call.listener) # 0
       /\ \E i \in 1..Len(call.modes) :
            /\ i \notin ModesInBand(returned.value[k].freq)
            /\ ModeContribution(call.subPositions, call.modes[i], call.room,
                                call.listener) # 0

\* C27: in the mode details of scoreSubConfig isCancelled is true exactly when the
\* absolute value of the summed signed excitation is below 0.2 and more than one
\* subwoofer position is given; with a single subwoofer no mode is flagged.
C27_CancelledNeedsTwoSubs ==
  ScoreReturned =>
    \A i \in 1..Len(returned.value.modeDetails) :
      LET detail == returned.value.modeDetails[i]
      IN /\ detail.isCancelled
              <=> /\ 5 * Abs(SummedExcitation(detail.mode)) < CosScale
                  /\ Len(call.subPositions) > 1
         /\ Len(call.subPositions) = 1 => ~detail.isCancelled

\* a single subwoofer that excites a mode with less than 0.2 and more than 0: the
\* mode is not flagged
C27_Witness ==
  /\ ScoreReturned
  /\ Len(call.subPositions) = 1
  /\ \E i \in 1..Len(returned.value.modeDetails) :
       LET detail == returned.value.modeDetails[i]
       IN /\ detail.absExcitation > 0
          /\ 5 * detail.absExcitation < CosScale
          /\ ~detail.isCancelled

\* ------------------------------------------------------------------------
\* Properties of the grid search candidates
\* ------------------------------------------------------------------------

\* the candidates of a search for one subwoofer, which scores each of them alone,
\* in the order of the wall loops
CandidatesScored ==
  [i \in 1..Len(returned.evaluated) |-> returned.evaluated[i].positions[1]]

SingleSearchReturned ==
  ReturnedFrom("optimizeSubPositions") /\ call.numSubs = 1

\* every candidate is on the floor, on the line of the wall whose label it carries,
\* and consecutive samples of a wall are gridResolution apart
OnLabelledWalls(c) ==
  /\ \A i \in 1..Len(c) :
       /\ c[i].z = 0
       /\ \/ c[i].wall = "front" /\ 2 * c[i].x = PosUnit
          \/ c[i].wall = "rear" /\ 2 * c[i].x = 2 * DimToPos(call.room.length) - PosUnit
          \/ c[i].wall = "left" /\ 2 * c[i].y = PosUnit
          \/ c[i].wall = "right" /\ 2 * c[i].y = 2 * DimToPos(call.room.width) - PosUnit
  /\ \A i \in 1..(Len(c) - 1) :
       c[i].wall = c[i + 1].wall =>
         IF c[i].wall \in {"front", "rear"}
         THEN c[i + 1].y - c[i].y = call.options.gridResolution /\ c[i + 1].x = c[i].x
         ELSE c[i + 1].x - c[i].x = call.options.gridResolution /\ c[i + 1].y = c[i].y

NoSharedPoint(c) ==
  \A i \in 1..Len(c) : \A j \in 1..Len(c) :
    i # j => <<c[i].x, c[i].y>> # <<c[j].x, c[j].y>>

\* C26 as stated: every grid-search candidate has z = 0 and carries the label of
\* its wall, consecutive samples on a wall are gridResolution apart, and no two
\* candidates are the same (x, y) point.
C26_CandidatesAllDistinct ==
  SingleSearchReturned =>
    OnLabelledWalls(CandidatesScored) /\ NoSharedPoint(CandidatesScored)

\* C26: every grid-search candidate has z = 0 and carries the label of its wall,
\* consecutive samples on a wall are gridResolution apart, and in a room whose
\* length and width both differ from 1 ft no two candidates are the same (x, y)
\* point.
C26_CandidatesDistinctUnlessOneFoot ==
  SingleSearchReturned =>
    /\ OnLabelledWalls(CandidatesScored)
    /\ call.room.length # 1 * DimUnit /\ call.room.width # 1 * DimUnit
         => NoSharedPoint(CandidatesScored)

\* the candidates of the room of 12 by 7 ft: 5 on the front wall, 5 on the rear
\* wall, 6 on each side wall
C26_Witness ==
  /\ SingleSearchReturned
  /\ Len(CandidatesScored) = 22
  /\ \A w \in {"front", "rear", "left", "right"} :
       \E i \in 1..21 : CandidatesScored[i].wall = w /\ CandidatesScored[i + 1].wall = w
  /\ NoSharedPoint(CandidatesScored)

SymmetricSearchReturned ==
  /\ ReturnedFrom("optimizeSubPositions")
  /\ call.numSubs = 2
  /\ call.options.symmetryConstraint

SamePoint(pair) == pair[1].x = pair[2].x /\ pair[1].y = pair[2].y

\* C28: with numSubs = 2 and symmetryConstraint = true the two positions of every
\* evaluated pair, and of the returned configuration, are distinct points.
C28_SymmetricPairsAreTwoPoints ==
  SymmetricSearchReturned =>
    /\ \A i \in 1..Len(returned.evaluated) : ~SamePoint(returned.evaluated[i].positions)
    /\ returned.value # Null => ~SamePoint(returned.value.positions)

\* a symmetric search that scored a front-wall candidate on the room's centre line
\* together with itself
C28_Witness ==
  /\ SymmetricSearchReturned
  /\ \E i \in 1..Len(returned.evaluated) :
       /\ SamePoint(returned.evaluated[i].positions)
       /\ returned.evaluated[i].positions[1].wall = "front"
       /\ 2 * returned.evaluated[i].positions[1].y = DimToPos(call.room.width)

\* C29: filtering the generated modes to 120 Hz before the sweep loses nothing:
\* every generated mode within f / 8 of a sweep frequency f in 20..120 Hz is at
\* or below 120 Hz, and the curve computed from the filtered list equals the
\* curve computed from the full list of generated modes.
C29_FilterLosesNothing ==
  ScoreReturned /\ call.modes = ModesMemo[call.room] =>
    /\ \A k \in 1..Len(returned.value.fr) :
         \A i \in ModesInBand(returned.value.fr[k].freq) :
           call.modes[i].freq <= 120 * FreqUnit
    /\ calcPredictedFR(call.subPositions, ModesForOptimization(call.modes), call.room,
                       call.listener, DefaultFreqRange)
         = returned.value.fr

\* a curve from the full list of generated modes with a mode above 120 Hz in the
\* band of a sweep frequency, contributing there
C29_Witness ==
  /\ ScoreReturned
  /\ call.modes = ModesMemo[call.room]
  /\ \E k \in 1..Len(returned.value.fr) :
       \E i \in ModesInBand(returned.value.fr[k].freq) :
         /\ call.modes[i].freq > 120 * FreqUnit
         /\ ModeContribution(call.subPositions, call.modes[i], call.room, call.listener) # 0

\* ------------------------------------------------------------------------
\* Properties of the memoised values and of the prompt
\* ------------------------------------------------------------------------

\* the values a render computing everything anew would hold (ModesMemo is the
\* table of generateModes(length, width, height, 200) over the rooms)
FreshModes == ModesMemo[room]

FreshModalAnalysis == ModalAnalysis(FreshModes, listener, speakers, room, wallOpenings)

\* C23: No memoised result is ever stale: in every state the component reaches
\* through changes of the room, the listener, the wall openings, the speakers and
\* the optimizer settings, modes, modalAnalysis, speakerAnalysis, keyFindings and
\* subOptimizerResults equal what a fresh computation from the current state gives.
C23_NoMemoIsStale ==
  /\ modes = FreshModes
  /\ modalAnalysis = FreshModalAnalysis
  /\ speakerAnalysis = SpeakerAnalysis(speakers, room, wallOpenings)
  /\ keyFindings = KeyFindings(FreshModalAnalysis)
  /\ subOptimizerResults = subOptimizerResultsOf(showSubOptimizer, subOptimizerConfig,
                                                 room, listener)

\* every kind of input has changed, and the memos differ from those of the mount
C23_Witness ==
  /\ room # DefaultRoom
  /\ listener # DefaultListener
  /\ wallOpenings # DefaultWallOpenings
  /\ speakers # DefaultSpeakers
  /\ showSubOptimizer
  /\ subOptimizerConfig # DefaultConfig
  /\ modes # ModesMemo[DefaultRoom]
  /\ subOptimizerResults # Null
  /\ C23_NoMemoIsStale

\* C30: After any edits of the speaker list, the boundary gain the prompt prints
\* under each speaker is the gain of the speakerAnalysis entry at the same index.
C30_PromptGainOfSameSpeaker ==
  \A i \in 1..Len(speakers) :
    PromptBoundaryGains[i] = ToFixed1(speakerAnalysis[i].boundaryGain)

\* two speakers of one name and different gains
C30_Witness ==
  \E i, j \in 1..Len(speakers) :
    /\ i < j
    /\ speakers[i].name = speakers[j].name
    /\ speakerAnalysis[i].boundaryGain # speakerAnalysis[j].boundaryGain

\* ------------------------------------------------------------------------
\* Properties of the room inputs and of saving and loading
\* ------------------------------------------------------------------------

\* C21: After any edits of the Length, Width and Height inputs, permalink loads
\* and configuration imports, the room length, width and height handed to
\* generateModes are all greater than 0.
C21_EngineGetsPositiveDimensions ==
  \A i \in 1..3 : memoDeps.modes[i] # NaN /\ memoDeps.modes[i] > 0

\* the Length field cleared: generateModes is called with a length of 0
C21_Witness ==
  /\ lastLoad = Null
  /\ room.length = 0
  /\ memoDeps.modes = <<0, 14 * DimUnit, 9 * DimUnit>>

\* a number from lo up, and one from lo to hi
NumFrom(j, lo) == IsNum(j) /\ j.num >= lo

NumWithin(j, lo, hi) == IsNum(j) /\ j.num >= lo /\ j.num <= hi

\* a compact document with room, wall openings, listener and speakers complete,
\* numeric and in range
CompactWellFormed(d) ==
  /\ IsObj(d)
  /\ {"r", "w", "l", "s"} \subseteq DOMAIN d.object
  /\ IsArr(d.object.r) /\ Len(d.object.r.array) = 3
  /\ \A i \in 1..3 : NumFrom(d.object.r.array[i], 1)
  /\ IsArr(d.object.w) /\ Len(d.object.w.array) = 4
  /\ \A i \in 1..4 : NumWithin(d.object.w.array[i], 0, 100)
  /\ IsArr(d.object.l) /\ Len(d.object.l.array) = 3
  /\ \A i \in 1..3 : NumFrom(d.object.l.array[i], 0)
  /\ IsArr(d.object.s)
  /\ \A k \in 1..Len(d.object.s.array) :
       LET item == d.object.s.array[k]
       IN /\ IsArr(item) /\ Len(item.array) >= 5
          /\ IsStr(item.array[1]) /\ IsStr(item.array[5])
          /\ \A i \in 2..4 : NumFrom(item.array[i], 0)

\* the same of a verbose document
VerboseWellFormed(d) ==
  /\ IsObj(d)
  /\ {"room", "wallOpenings", "listener", "speakers"} \subseteq DOMAIN d.object
  /\ \A f \in {"length", "width", "height"} : NumFrom(Get(d.object.room, f), 1)
  /\ \A f \in {"front", "rear", "left", "right"} :
       NumWithin(Get(d.object.wallOpenings, f), 0, 100)
  /\ \A f \in {"x", "y", "z"} : NumFrom(Get(d.object.listener, f), 0)
  /\ IsArr(d.object.speakers)
  /\ \A k \in 1..Len(d.object.speakers.array) :
       LET item == d.object.speakers.array[k]
       IN /\ IsStr(Get(item, "name")) /\ IsStr(Get(item, "type"))
          /\ \A f \in {"x", "y", "z"} : NumFrom(Get(item, f), 0)

\* a text that is no configuration
Malformed(text) ==
  \/ text.json = Unparseable
  \/ ~(CompactWellFormed(text.json) \/ VerboseWellFormed(text.json))

\* a parameter c that is no permalink
MalformedParam(configParam) ==
  configParam = NotBase64 \/ Malformed(configParam.base64)

\* C22: A malformed configuration, loaded from the box or from the URL, is
\* rejected and reported, and leaves room, wallOpenings, listener and speakers
\* as they were.
C22_MalformedIsRejected ==
  [][(\/ LoadConfiguration /\ Malformed(importText)
      \/ LoadFromUrl /\ MalformedParam(urlConfig))
       => /\ lastLoad'.reported
          /\ UNCHANGED <<room, wallOpenings, listener, speakers>>]_vars

\* a malformed text was loaded without a report, and the room is 0 ft long
C22_Witness ==
  /\ lastLoad # Null
  /\ IF "base64" \in DOMAIN lastLoad.text THEN MalformedParam(lastLoad.text)
     ELSE Malformed(lastLoad.text)
  /\ ~lastLoad.reported
  /\ room.length = 0

\* the configurations whose exports are loaded: the default one and the saved
\* one, with the lengths and crossovers that are typed
ExportedConfigs ==
  {[base EXCEPT !.room.length = v, !.crossoverFreq = c] :
     base \in {DefaultConfiguration, SavedConfig},
     v \in {18 * DimUnit} \cup {OrZero(parseFloat(t)) * DimUnit : t \in LengthTexts},
     c \in {Null, Num(80)}}

\* C24: Loading an exported configuration, from the box or at mount from the
\* URL, from any prior state leaves room, wallOpenings, listener, speakers,
\* eqAvailable and crossoverFreq equal to the values that were exported.
C24_LoadRestoresExport ==
  [][\A exported \in ExportedConfigs :
       (\/ /\ LoadConfiguration
           /\ importText \in {serializeState(exported), serializeCompact(exported)}
        \/ /\ LoadFromUrl
           /\ urlConfig = toUrlSafe(serializeCompact(exported)))
         => CurrentConfig' = exported]_vars

\* the export of the default configuration was loaded over a crossover of 80 Hz,
\* and the crossover is still there
C24_Witness ==
  /\ lastLoad # Null
  /\ lastLoad.text = serializeState(DefaultConfiguration)
  /\ ~lastLoad.reported
  /\ room = DefaultRoom
  /\ crossoverFreq = Num(80)

=============================================================================
